---------------------------- MODULE Spec2Model ----------------------------
(***************************************************************************)
(* A model of the pocketpy VS Code extension (src/src/extension.ts, the    *)
(* last variant in the file, lines 170-626):                               *)
(*                                                                         *)
(*   - the path helpers toRelativePath / toAbsolutePath        (SpecPath)  *)
(*   - the debug adapter tracker (the message relay)           (SpecRelay) *)
(*   - createDebugAdapterDescriptor and pingserver             (SpecLaunch)*)
(*   - the line profiler session and its decorations           (SpecProf)  *)
(*                                                                         *)
(* A path string is a sequence of one-character strings, so that the       *)
(* lexical work of node's posix path module (split on "/", drop "." and    *)
(* empty segments, resolve "..") is modelled as the library does it.       *)
(* Each specification constrains the variables of its own part and keeps   *)
(* the variables of the other parts at their initial values.               *)
(***************************************************************************)
EXTENDS Integers, Sequences, FiniteSets, TLC

VARIABLES
  \* --- path helpers
  sourceFolder,   \* the tracker's sourceFolder (line 315)
  pathArg,        \* the argument handed to toRelativePath
  relResult,      \* toRelativePath(pathArg), or <<>> before the call
  absResult,      \* toAbsolutePath(relResult), or <<>> before the call
  absAgain,       \* toAbsolutePath(absResult), or <<>> before the call
  pathPc,         \* "idle" | "start" | "relDone" | "absDone"
  \* --- debug adapter tracker
  outObserved,    \* messages handed to onWillReceiveMessage, in order
  outForwarded,   \* the same message objects as the host then sends them on
  inObserved,     \* messages handed to onDidSendMessage, in order
  inForwarded,    \* the same message objects as the host then delivers them
  notifications,  \* texts passed to showErrorMessage by the tracker, in order
  \* --- createDebugAdapterDescriptor and pingserver
  requestType,    \* config.request: "attach" | "launch" | "other"
  hasArgs,        \* whether config.args is an array (args.join is called on it)
  launchPc,       \* where createDebugAdapterDescriptor / pingserver stands
  now,            \* Date.now(), in ms since the request came in
  start,          \* pingserver's start
  timerDue,       \* when the pending back-off timer is due (-1: no timer)
  sock,           \* the probe socket of the current attempt
  retried,        \* whether an attempt has failed
  spawned,        \* whether the command line was sent to the terminal
  launchResult,   \* "pending" | "descriptor" | "null" | "rejected"
  launchErrors,   \* texts passed to showErrorMessage by the factory
  tornDown,       \* whether the debug session was ended during the launch
  \* --- line profiler sessions
  currentLineProfiler, \* the active LineProfilerDecorator (0: undefined)
  sessions,       \* how many LineProfilerDecorator objects were constructed
  sessionData,    \* per session: this.data, as file -> number of heat colours
  prefixLive,     \* per session: prefixDecorationType is not disposed
  tracked,        \* per session: editorToDecorationTypes, file -> handles
  colorsCached,   \* per session: the files that have an editorToColors entry
  liveDts,        \* the background decoration types created and not disposed
  pending,        \* applyToEditor calls awaiting their fold-range query
  visible,        \* the files of the visible python editors
  listeners,      \* refresh listeners registered per editor event
  loadPc,         \* where the load command stands
  quitPc,         \* where the quit command stands
  loadErrors,     \* error messages shown by the load command since it began
  quitErrors,     \* error messages shown by the quit command since it began
  \* --- reading one profile artifact (lines 216-230)
  artifact,       \* the text of the file picked in the dialog
  parsePc,        \* "idle" | "start" | "done"
  parseOutcome,   \* <<>> or <<what the load command did with the artifact>>
  \* --- one call of mapLinesToBlocks (lines 422-457)
  document,       \* <<>> or <<[lineCount, folds]>>: the editor's document
  blockPc,        \* "idle" | "start" | "done"
  lineMap,        \* <<>> or <<the map the call returned>>
  \* --- one render of a file, applyToEditor (lines 540-585)
  renderInput,    \* <<>> or <<[lineCount, folds, records]>>
  renderPc,       \* "idle" | "start" | "done"
  renderOutput,   \* <<>> or <<the gutter entries the render made>>
  \* --- one call of formatDuration (lines 605-625)
  formatInput,    \* <<>> or <<[clockTicks, clocksPerSec]>>
  formatPc,       \* "idle" | "start" | "done"
  formatOutput,   \* <<>> or <<the string the call returned>>
  \* --- the line map cache of one file, editorToColors (lines 366, 422-457)
  decorators,     \* how many LineProfilerDecorator objects were constructed
  activeDecorator, \* currentLineProfiler (0: undefined)
  editorToColors, \* per decorator: <<>> or <<the cached line map of the file>>
  foldQueries,    \* the decorators of the mapLinesToBlocks calls that await
  mapsUsed,       \* per finished mapLinesToBlocks call: who got which map
  \* --- the setting files.readonlyInclude (lines 256, 378-386, 597-603)
  readonlyInclude, \* the setting as get() returns it: file -> value
  configUpdates,  \* the values of the update() calls that have not landed
  analysisFiles   \* <<>> or <<analysisFilesSet of the active decorator>>

pathVars == <<pathArg, relResult, absResult, absAgain, pathPc>>
relayVars == <<outObserved, outForwarded, inObserved, inForwarded, notifications>>
launchVars == <<requestType, hasArgs, launchPc, now, start, timerDue, sock,
                retried, spawned, launchResult, launchErrors, tornDown>>
decoVars == <<tracked, liveDts, pending>>
profVars == <<currentLineProfiler, sessions, sessionData, prefixLive, decoVars,
              colorsCached, visible, listeners, loadPc, quitPc, loadErrors,
              quitErrors>>
parseVars == <<artifact, parsePc, parseOutcome>>
blockVars == <<document, blockPc, lineMap>>
renderVars == <<renderInput, renderPc, renderOutput>>
formatVars == <<formatInput, formatPc, formatOutput>>
cacheVars == <<decorators, activeDecorator, editorToColors, foldQueries,
               mapsUsed>>
configVars == <<readonlyInclude, configUpdates, analysisFiles>>
vars == <<sourceFolder, pathVars, relayVars, launchVars, profVars, parseVars,
          blockVars, renderVars, formatVars,
          cacheVars, configVars>>
\* What the actions of one part leave alone.
notPathVars == <<relayVars, launchVars, profVars, parseVars, blockVars,
                 renderVars, formatVars,
                 cacheVars, configVars>>
notRelayVars == <<pathVars, launchVars, profVars, parseVars, blockVars,
                  renderVars, formatVars,
                  cacheVars, configVars>>
notLaunchVars == <<sourceFolder, pathVars, relayVars, profVars, parseVars,
                   blockVars, renderVars, formatVars,
                   cacheVars, configVars>>
notProfVars == <<sourceFolder, pathVars, relayVars, launchVars, parseVars,
                 blockVars, renderVars, formatVars,
                 cacheVars, configVars>>
notParseVars == <<sourceFolder, pathVars, relayVars, launchVars, profVars,
                  blockVars, renderVars, formatVars,
                  cacheVars, configVars>>
notBlockVars == <<sourceFolder, pathVars, relayVars, launchVars, profVars,
                  parseVars, renderVars, formatVars,
                  cacheVars, configVars>>
notRenderVars == <<sourceFolder, pathVars, relayVars, launchVars, profVars,
                   parseVars, blockVars, formatVars,
                   cacheVars, configVars>>
notFormatVars == <<sourceFolder, pathVars, relayVars, launchVars, profVars,
                   parseVars, blockVars, renderVars,
                   cacheVars, configVars>>
notCacheVars == <<sourceFolder, pathVars, relayVars, launchVars, profVars,
                  parseVars, blockVars, renderVars, formatVars, configVars>>
notConfigVars == <<sourceFolder, pathVars, relayVars, launchVars, profVars,
                   parseVars, blockVars, renderVars, formatVars, cacheVars>>

\* An optional value is <<>> (undefined) or <<v>>.
Absent == <<>>
Some(v) == <<v>>
None == "none"

---------------------------------------------------------------------------
(* Bounds of the model. *)
MaxPathLen == 4
MaxRootLen == 2
MaxFrames == 2
MaxMsgs == 2
\* the clock advances in steps of TickMs and stops at MaxNow
TickMs == 50
MaxNow == 60600
\* LineProfilerDecorator objects constructed, applyToEditor calls awaiting
\* their fold-range query at one time
MaxSessions == 2
MaxPending == 2

\* entries in the record list of one file of an artifact
MaxRecords == 2

\* lines of a document
MaxLines == 6
MaxRenderLines == 2

\* clock ticks of a duration
MaxTicks == 100

---------------------------------------------------------------------------
(* Strings *)

Sep == "/"
Dot == "."
Chars == {Sep, Dot, "a", "b"}
DotDot == <<Dot, Dot>>

RECURSIVE StrsUpTo(_)
StrsUpTo(n) ==
  IF n = 0 THEN {<<>>}
  ELSE LET prev == StrsUpTo(n - 1)
       IN  prev \cup {Append(s, c) : s \in {t \in prev : Len(t) = n - 1}, c \in Chars}

StartsWith(s, prefix) ==
  /\ Len(prefix) <= Len(s)
  /\ SubSeq(s, 1, Len(prefix)) = prefix

EndsWithSep(s) == Len(s) > 0 /\ s[Len(s)] = Sep

\* s.split("/")
RECURSIVE SplitFrom(_, _, _)
SplitFrom(s, i, cur) ==
  IF i > Len(s) THEN <<cur>>
  ELSE IF s[i] = Sep THEN <<cur>> \o SplitFrom(s, i + 1, <<>>)
  ELSE SplitFrom(s, i + 1, Append(cur, s[i]))

Split(s) == SplitFrom(s, 1, <<>>)

\* segs.join("/")
RECURSIVE JoinSegs(_)
JoinSegs(segs) ==
  IF Len(segs) = 0 THEN <<>>
  ELSE IF Len(segs) = 1 THEN segs[1]
  ELSE segs[1] \o <<Sep>> \o JoinSegs(Tail(segs))

---------------------------------------------------------------------------
(* node's posix path module, as the tracker calls it *)

\* process.cwd(), which path.relative reads to resolve a relative argument
Cwd == <<Sep, "c">>

\* path.isAbsolute
IsAbsolute(p) == Len(p) > 0 /\ p[1] = Sep

\* normalizeString's walk over the segments: "." and empty segments are
\* dropped, ".." removes the segment before it, or is kept (allowAboveRoot)
\* or dropped when there is none.
RECURSIVE NormSegsFrom(_, _, _, _)
NormSegsFrom(segs, i, acc, allowAboveRoot) ==
  IF i > Len(segs) THEN acc
  ELSE LET seg == segs[i] IN
    IF seg = <<>> \/ seg = <<Dot>>
      THEN NormSegsFrom(segs, i + 1, acc, allowAboveRoot)
    ELSE IF seg = DotDot
      THEN IF Len(acc) > 0 /\ acc[Len(acc)] # DotDot
             THEN NormSegsFrom(segs, i + 1, SubSeq(acc, 1, Len(acc) - 1), allowAboveRoot)
           ELSE IF allowAboveRoot
             THEN NormSegsFrom(segs, i + 1, Append(acc, DotDot), allowAboveRoot)
           ELSE NormSegsFrom(segs, i + 1, acc, allowAboveRoot)
    ELSE NormSegsFrom(segs, i + 1, Append(acc, seg), allowAboveRoot)

NormSegs(p, allowAboveRoot) == NormSegsFrom(Split(p), 1, <<>>, allowAboveRoot)

\* path.resolve(p), as the list of the segments below "/"
ResolveSegs(p) ==
  IF IsAbsolute(p) THEN NormSegs(p, FALSE)
  ELSE IF p = <<>> THEN NormSegs(Cwd, FALSE)
  ELSE NormSegs(Cwd \o <<Sep>> \o p, FALSE)

\* path.resolve(p)
Resolve(p) == <<Sep>> \o JoinSegs(ResolveSegs(p))

\* path.normalize
Normalize(p) ==
  IF p = <<>> THEN <<Dot>>
  ELSE LET abs  == IsAbsolute(p)
           body == JoinSegs(NormSegs(p, ~abs))
       IN  IF body = <<>>
             THEN IF abs THEN <<Sep>>
                  ELSE IF EndsWithSep(p) THEN <<Dot, Sep>> ELSE <<Dot>>
           ELSE LET tailed == IF EndsWithSep(p) THEN Append(body, Sep) ELSE body
                IN  IF abs THEN <<Sep>> \o tailed ELSE tailed

\* path.join(a, b)
Join(a, b) ==
  IF a = <<>> /\ b = <<>> THEN <<Dot>>
  ELSE IF a = <<>> THEN Normalize(b)
  ELSE IF b = <<>> THEN Normalize(a)
  ELSE Normalize(a \o <<Sep>> \o b)

RECURSIVE CommonLen(_, _, _)
CommonLen(f, t, i) ==
  IF i < Len(f) /\ i < Len(t) /\ f[i + 1] = t[i + 1]
    THEN CommonLen(f, t, i + 1)
  ELSE i

\* path.relative(from, to)
Relative(from, to) ==
  IF from = to THEN <<>>
  ELSE LET f == ResolveSegs(from)
           t == ResolveSegs(to)
           c == CommonLen(f, t, 0)
       IN  JoinSegs([i \in 1..(Len(f) - c) |-> DotDot] \o SubSeq(t, c + 1, Len(t)))

---------------------------------------------------------------------------
(* PathMappingTrackerFactory.createDebugAdapterTracker: the two helpers *)

toRelativePath(root, absPath) == Relative(root, absPath)

\* a bug: the relative path is returned without the root joined to it
toAbsolutePath_NoJoin(root, relPath) == relPath

\* a bug: the root is joined to every path, absolute or not
toAbsolutePath_AlwaysJoin(root, relPath) == Join(root, relPath)

toAbsolutePath(root, relPath) ==
  IF ~IsAbsolute(relPath) THEN Join(root, relPath) ELSE relPath

\* The paths and the source roots the model draws from.  A source root is
\* an absolute directory.
Paths == StrsUpTo(MaxPathLen)
Roots == {r \in StrsUpTo(MaxRootLen) : IsAbsolute(r)}

---------------------------------------------------------------------------
(* SpecPath: the helpers applied to every path of the bounded set *)

PathIdle ==
  /\ pathArg = <<>>
  /\ relResult = <<>>
  /\ absResult = <<>>
  /\ absAgain = <<>>
  /\ pathPc = "idle"

RelayIdle ==
  /\ outObserved = <<>>
  /\ outForwarded = <<>>
  /\ inObserved = <<>>
  /\ inForwarded = <<>>
  /\ notifications = <<>>

NoSocket == [state |-> "none", wrote |-> FALSE, gotData |-> FALSE, ended |-> FALSE]

LaunchIdle ==
  /\ requestType = "none"
  /\ hasArgs = FALSE
  /\ launchPc = "idle"
  /\ now = 0
  /\ start = 0
  /\ timerDue = -1
  /\ sock = NoSocket
  /\ retried = FALSE
  /\ spawned = FALSE
  /\ launchResult = "pending"
  /\ launchErrors = <<>>
  /\ tornDown = FALSE

\* no artifact is being read
ParseIdle ==
  /\ artifact = <<>>
  /\ parsePc = "idle"
  /\ parseOutcome = <<>>

\* mapLinesToBlocks is not running
BlockIdle ==
  /\ document = <<>>
  /\ blockPc = "idle"
  /\ lineMap = <<>>

\* applyToEditor is not rendering
RenderIdle ==
  /\ renderInput = <<>>
  /\ renderPc = "idle"
  /\ renderOutput = <<>>

\* no call of formatDuration
FormatIdle ==
  /\ formatInput = <<>>
  /\ formatPc = "idle"
  /\ formatOutput = <<>>

Files == {"a.py", "b.py"}
SessionIds == 1..MaxSessions

ProfIdle ==
  /\ currentLineProfiler = 0
  /\ sessions = 0
  /\ sessionData = [s \in SessionIds |-> [f \in Files |-> FALSE]]
  /\ prefixLive = [s \in SessionIds |-> FALSE]
  /\ tracked = [s \in SessionIds |-> [f \in Files |-> {}]]
  /\ colorsCached = [s \in SessionIds |-> {}]
  /\ liveDts = {}
  /\ pending = {}
  /\ visible = {}
  /\ listeners = 0
  /\ loadPc = "idle"
  /\ quitPc = "idle"
  /\ loadErrors = 0
  /\ quitErrors = 0

\* no decorator was constructed, no mapLinesToBlocks call was made
CacheIdle ==
  /\ decorators = 0
  /\ activeDecorator = 0
  /\ editorToColors = [s \in SessionIds |-> <<>>]
  /\ foldQueries = <<>>
  /\ mapsUsed = <<>>

\* the setting is empty and no update is on its way
ConfigIdle ==
  /\ readonlyInclude = [f \in Files |-> None]
  /\ configUpdates = <<>>
  /\ analysisFiles = <<>>

InitPath ==
  /\ sourceFolder \in Roots
  /\ pathArg \in Paths
  /\ relResult = <<>>
  /\ absResult = <<>>
  /\ absAgain = <<>>
  /\ pathPc = "start"
  /\ RelayIdle
  /\ LaunchIdle
  /\ ProfIdle
  /\ ParseIdle
  /\ BlockIdle
  /\ RenderIdle
  /\ FormatIdle
  /\ CacheIdle
  /\ ConfigIdle

CallToRelativePath ==
  /\ pathPc = "start"
  /\ relResult' = toRelativePath(sourceFolder, pathArg)
  /\ pathPc' = "relDone"
  /\ UNCHANGED <<sourceFolder, pathArg, absResult, absAgain, notPathVars>>

CallToAbsolutePath ==
  /\ pathPc = "relDone"
  /\ absResult' = toAbsolutePath(sourceFolder, relResult)
  /\ pathPc' = "absDone"
  /\ UNCHANGED <<sourceFolder, pathArg, relResult, absAgain, notPathVars>>

NextPath ==
  \/ CallToRelativePath
  \/ CallToAbsolutePath

SpecPath == InitPath /\ [][NextPath]_vars

\* SpecAbs: toAbsolutePath applied to every path of the bounded set, and
\* then to its own result (pathPc: "absStart", "absOnce", "absTwice")
InitAbs ==
  /\ sourceFolder \in Roots
  /\ pathArg \in Paths
  /\ relResult = <<>>
  /\ absResult = <<>>
  /\ absAgain = <<>>
  /\ pathPc = "absStart"
  /\ RelayIdle
  /\ LaunchIdle
  /\ ProfIdle
  /\ ParseIdle
  /\ BlockIdle
  /\ RenderIdle
  /\ FormatIdle
  /\ CacheIdle
  /\ ConfigIdle

CallAbsoluteOnce ==
  /\ pathPc = "absStart"
  /\ absResult' = toAbsolutePath(sourceFolder, pathArg)
  /\ pathPc' = "absOnce"
  /\ UNCHANGED <<sourceFolder, pathArg, relResult, absAgain, notPathVars>>

CallAbsoluteAgain ==
  /\ pathPc = "absOnce"
  /\ absAgain' = toAbsolutePath(sourceFolder, absResult)
  /\ pathPc' = "absTwice"
  /\ UNCHANGED <<sourceFolder, pathArg, relResult, absResult, notPathVars>>

NextAbs ==
  \/ CallAbsoluteOnce
  \/ CallAbsoluteAgain

SpecAbs == InitAbs /\ [][NextAbs]_vars

---------------------------------------------------------------------------
(* Debug adapter protocol messages.                                        *)
(*                                                                         *)
(* A message is a record; a field the JavaScript object may lack is an     *)
(* optional value.  type, command and event are strings (None: undefined). *)
(* name, lines and id stand for the fields the tracker never reads.        *)

Source(pathOpt) == [name |-> "main.py", path |-> pathOpt]
Arguments(srcOpt) == [source |-> srcOpt, lines |-> <<3, 7>>]
Frame(srcOpt) == [id |-> 1, source |-> srcOpt]
\* body.stackFrames: undefined, a value that is no array, or an array
NoFrames == [kind |-> "absent", items |-> <<>>]
NotArrayFrames == [kind |-> "notArray", items |-> <<>>]
FrameArray(fs) == [kind |-> "array", items |-> fs]
Body(srcOpt, frames, textOpt) ==
  [source |-> srcOpt, stackFrames |-> frames, message |-> textOpt]
Message(t, c, e, argsOpt, bodyOpt) ==
  [type |-> t, command |-> c, event |-> e, arguments |-> argsOpt, body |-> bodyOpt]

\* JavaScript truthiness of an optional string: undefined and "" are falsy.
TruthyPath(pathOpt) == pathOpt # Absent /\ pathOpt[1] # <<>>
TruthyText(textOpt) == textOpt # Absent /\ textOpt[1] # ""

\* x?.source?.path for an optional source
SourcePath(srcOpt) == IF srcOpt = Absent THEN Absent ELSE srcOpt[1].path
\* message.arguments?.source?.path
ArgumentsPath(m) ==
  IF m.arguments = Absent THEN Absent ELSE SourcePath(m.arguments[1].source)
\* message.body?.source?.path
BodyPath(m) ==
  IF m.body = Absent THEN Absent ELSE SourcePath(m.body[1].source)
\* message.body?.stackFrames
BodyFrames(m) == IF m.body = Absent THEN NoFrames ELSE m.body[1].stackFrames
\* message.body?.message
BodyText(m) == IF m.body = Absent THEN Absent ELSE m.body[1].message

---------------------------------------------------------------------------
(* The tracker's two handlers.  Each mutates the message object in place;  *)
(* the operators give the object as the handler leaves it.                 *)

\* a bug: the command is not tested
onWillReceiveMessage_AnyCommand(root, m) ==
  IF TruthyPath(ArgumentsPath(m))
    THEN [m EXCEPT !.arguments[1].source[1].path =
                      Some(toRelativePath(root, @[1]))]
  ELSE m

onWillReceiveMessage(root, m) ==
  IF m.command = "setBreakpoints" /\ TruthyPath(ArgumentsPath(m))
    THEN [m EXCEPT !.arguments[1].source[1].path =
                      Some(toRelativePath(root, @[1]))]
  ELSE m

\* a bug: only a frame that already has an absolute path is handled
RewriteFrame_Skip(root, frame) == frame

\* the loop body of lines 343-347
RewriteFrame(root, frame) ==
  IF TruthyPath(SourcePath(frame.source))
    THEN [frame EXCEPT !.source[1].path = Some(toAbsolutePath(root, @[1]))]
  ELSE frame

\* a bug: the path is not tested, a source without one is given the root
RewriteBodySource_NoPathTest(root, m) ==
  IF m.body # Absent /\ m.body[1].source # Absent
    THEN [m EXCEPT !.body[1].source[1].path =
                      Some(toAbsolutePath(root, IF @ = Absent THEN <<>> ELSE @[1]))]
  ELSE m

\* lines 338-340
RewriteBodySource(root, m) ==
  IF TruthyPath(BodyPath(m))
    THEN [m EXCEPT !.body[1].source[1].path = Some(toAbsolutePath(root, @[1]))]
  ELSE m

\* lines 342-348
RewriteStackFrames(root, m) ==
  IF BodyFrames(m).kind = "array"
    THEN [m EXCEPT !.body[1].stackFrames.items =
                      [i \in 1..Len(@) |-> RewriteFrame(root, @[i])]]
  ELSE m

\* a bug: the message type is not tested
FatalErrorNotifications_AnyType(m) ==
  IF m.event = "fatalError"
    THEN <<[prefix |-> "[C11 Debugger] ",
            text |-> IF TruthyText(BodyText(m)) THEN BodyText(m)[1]
                     ELSE "Unknown fatal error"]>>
  ELSE <<>>

\* lines 349-352: the texts shown for one message
FatalErrorNotifications(m) ==
  IF m.type = "event" /\ m.event = "fatalError"
    THEN <<[prefix |-> "[C11 Debugger] ",
            text |-> IF TruthyText(BodyText(m)) THEN BodyText(m)[1]
                     ELSE "Unknown fatal error"]>>
  ELSE <<>>

onDidSendMessage(root, m) == RewriteStackFrames(root, RewriteBodySource(root, m))

---------------------------------------------------------------------------
(* The messages the model sends through the tracker *)

RelayRoot == <<Sep, "a">>
\* "", a relative path, an absolute path under the root, one outside it
MsgPaths == {<<>>, <<"b">>, <<Sep, "a", Sep, "b">>, <<Sep, "b">>}
PathOpts == {Absent} \cup {Some(p) : p \in MsgPaths}
SourceOpts == {Absent} \cup {Some(Source(po)) : po \in PathOpts}
ArgumentsOpts == {Absent} \cup {Some(Arguments(so)) : so \in SourceOpts}
TextOpts == {Absent, Some(""), Some("boom")}

\* UI to server: requests, among them a command other than setBreakpoints
\* that carries a source path
OutMsgs ==
  {Message("request", c, None, ao, Absent) :
     c \in {"setBreakpoints", "source"}, ao \in ArgumentsOpts}

FrameKinds ==
  {Frame(Absent), Frame(Some(Source(Some(<<"b">>)))),
   Frame(Some(Source(Some(<<Sep, "a", Sep, "b">>))))}
RECURSIVE FrameListsUpTo(_)
FrameListsUpTo(n) ==
  IF n = 0 THEN {<<>>}
  ELSE LET prev == FrameListsUpTo(n - 1)
       IN  prev \cup {Append(fs, f) : fs \in {g \in prev : Len(g) = n - 1},
                                      f \in FrameKinds}
FramesOpts ==
  {NoFrames, NotArrayFrames} \cup {FrameArray(fs) : fs \in FrameListsUpTo(MaxFrames)}

\* Server to UI.  The three parts of onDidSendMessage read disjoint fields,
\* so the bodies vary one part at a time, plus bodies that carry all three.
InBodies ==
  {Absent}
  \cup {Some(Body(so, NoFrames, Absent)) : so \in SourceOpts}
  \cup {Some(Body(Absent, fr, Absent)) : fr \in FramesOpts}
  \cup {Some(Body(Some(Source(Some(<<"b">>))),
                  FrameArray(<<Frame(Some(Source(Absent))),
                               Frame(Some(Source(Some(<<>>))))>>), t)) :
          t \in TextOpts}
InMsgs ==
  {Message("response", "stackTrace", None, Absent, b) : b \in InBodies}
  \cup {Message(t, None, e, Absent, Some(Body(Absent, NoFrames, x))) :
          t \in {"response", "event"}, e \in {"stopped", "fatalError"},
          x \in TextOpts}
  \cup {Message("event", "fatalError", "fatalError", Absent, b) :
          b \in {Absent, Some(Body(Some(Source(Some(<<"b">>))),
                                   FrameArray(<<Frame(Some(Source(Some(<<"b">>))))>>),
                                   Some("boom")))}}

---------------------------------------------------------------------------
(* SpecRelay: the host hands each message to the tracker and then passes   *)
(* the same object on.                                                     *)

InitRelay ==
  /\ sourceFolder = RelayRoot
  /\ RelayIdle
  /\ PathIdle
  /\ LaunchIdle
  /\ ProfIdle
  /\ ParseIdle
  /\ BlockIdle
  /\ RenderIdle
  /\ FormatIdle
  /\ CacheIdle
  /\ ConfigIdle

MsgCount == Len(outObserved) + Len(inObserved)

WillReceiveMessage(m) ==
  /\ MsgCount < MaxMsgs
  /\ outObserved' = Append(outObserved, m)
  /\ outForwarded' = Append(outForwarded, onWillReceiveMessage(sourceFolder, m))
  /\ UNCHANGED <<sourceFolder, inObserved, inForwarded, notifications, notRelayVars>>

\* a bug: a message whose paths were rewritten is passed on ahead of the others
DidSendMessage_Reorder(m) ==
  /\ MsgCount < MaxMsgs
  /\ inObserved' = Append(inObserved, m)
  /\ inForwarded' = IF onDidSendMessage(sourceFolder, m) # m
                      THEN <<onDidSendMessage(sourceFolder, m)>> \o inForwarded
                    ELSE Append(inForwarded, onDidSendMessage(sourceFolder, m))
  /\ notifications' = notifications \o FatalErrorNotifications(m)
  /\ UNCHANGED <<sourceFolder, outObserved, outForwarded, notRelayVars>>

DidSendMessage(m) ==
  /\ MsgCount < MaxMsgs
  /\ inObserved' = Append(inObserved, m)
  /\ inForwarded' = Append(inForwarded, onDidSendMessage(sourceFolder, m))
  /\ notifications' = notifications \o FatalErrorNotifications(m)
  /\ UNCHANGED <<sourceFolder, outObserved, outForwarded, notRelayVars>>

NextRelay ==
  \/ \E m \in OutMsgs : WillReceiveMessage(m)
  \/ \E m \in InMsgs : DidSendMessage(m)

SpecRelay == InitRelay /\ [][NextRelay]_vars

---------------------------------------------------------------------------
(* createDebugAdapterDescriptor and pingserver (SpecLaunch)                *)
(*                                                                         *)
(* launchPc: "start"      the factory has been called                      *)
(*           "loopTop"    pingserver is at the top of its while loop       *)
(*           "awaitProbe" the loop awaits the promise of one attempt       *)
(*           "resolved"   the attempt's promise is resolved                *)
(*           "backoff"    the loop awaits the 150 ms timer                 *)
(*           "done"       the factory's promise is settled                 *)
(* The server and the network are the environment: a socket may connect,   *)
(* answer, fail, or do nothing, at any time.                               *)

\* const timeout = 60_000
Timeout == 60000
\* setTimeout(r, 150)
Backoff == 150

InitLaunch ==
  /\ requestType \in {"attach", "launch", "other"}
  /\ hasArgs \in BOOLEAN
  /\ launchPc = "start"
  /\ now = 0
  /\ start = 0
  /\ timerDue = -1
  /\ sock = NoSocket
  /\ retried = FALSE
  /\ spawned = FALSE
  /\ launchResult = "pending"
  /\ launchErrors = <<>>
  /\ tornDown = FALSE
  /\ sourceFolder = RelayRoot
  /\ PathIdle
  /\ RelayIdle
  /\ ProfIdle
  /\ ParseIdle
  /\ BlockIdle
  /\ RenderIdle
  /\ FormatIdle
  /\ CacheIdle
  /\ ConfigIdle

\* lines 293-295
Attach ==
  /\ launchPc = "start"
  /\ requestType = "attach"
  /\ launchResult' = "descriptor"
  /\ launchPc' = "done"
  /\ UNCHANGED <<requestType, hasArgs, now, start, timerDue, sock, retried,
                 spawned, launchErrors, tornDown, notLaunchVars>>

\* lines 296-305 and 264-267: the terminal is created, args.join throws when
\* config.args is undefined, otherwise the command line is sent and
\* pingserver starts
LaunchSpawn ==
  /\ launchPc = "start"
  /\ requestType = "launch"
  /\ IF hasArgs
       THEN /\ spawned' = TRUE
            /\ start' = now
            /\ launchPc' = "loopTop"
            /\ UNCHANGED launchResult
     ELSE /\ launchResult' = "rejected"
          /\ launchPc' = "done"
          /\ UNCHANGED <<spawned, start>>
  /\ UNCHANGED <<requestType, hasArgs, now, timerDue, sock, retried,
                 launchErrors, tornDown, notLaunchVars>>

\* a bug: a request of an unknown type is served like attach
Unsupported_AsAttach ==
  /\ launchPc = "start"
  /\ requestType = "other"
  /\ launchResult' = "descriptor"
  /\ launchPc' = "done"
  /\ UNCHANGED <<requestType, hasArgs, now, start, timerDue, sock, retried,
                 spawned, launchErrors, tornDown, notLaunchVars>>

\* lines 308-309
Unsupported ==
  /\ launchPc = "start"
  /\ requestType = "other"
  /\ launchErrors' = Append(launchErrors, "unsupported type")
  /\ launchResult' = "null"
  /\ launchPc' = "done"
  /\ UNCHANGED <<requestType, hasArgs, now, start, timerDue, sock, retried,
                 spawned, tornDown, notLaunchVars>>

\* a bug: the budget of the comment and the error text (10 s), not 60 s
PingCheck_TenSeconds ==
  /\ launchPc = "loopTop"
  /\ IF now - start > 10000
       THEN /\ launchResult' = "rejected"
            /\ launchPc' = "done"
            /\ UNCHANGED sock
     ELSE /\ sock' = [state |-> "connecting", wrote |-> FALSE,
                      gotData |-> FALSE, ended |-> FALSE]
          /\ launchPc' = "awaitProbe"
          /\ UNCHANGED launchResult
  /\ UNCHANGED <<requestType, hasArgs, now, start, timerDue, retried, spawned,
                 launchErrors, tornDown, notLaunchVars>>

\* lines 268-275: the elapsed time is tested, then net.connect opens the
\* socket of a new attempt
PingCheck ==
  /\ launchPc = "loopTop"
  /\ IF now - start > Timeout
       THEN /\ launchResult' = "rejected"
            /\ launchPc' = "done"
            /\ UNCHANGED sock
     ELSE /\ sock' = [state |-> "connecting", wrote |-> FALSE,
                      gotData |-> FALSE, ended |-> FALSE]
          /\ launchPc' = "awaitProbe"
          /\ UNCHANGED launchResult
  /\ UNCHANGED <<requestType, hasArgs, now, start, timerDue, retried, spawned,
                 launchErrors, tornDown, notLaunchVars>>

\* a bug: the connection itself is taken for the answer
SocketConnect_Resolves ==
  /\ launchPc = "awaitProbe"
  /\ sock.state = "connecting"
  /\ sock' = [sock EXCEPT !.state = "connected", !.wrote = TRUE, !.ended = TRUE]
  /\ launchPc' = "resolved"
  /\ UNCHANGED <<requestType, hasArgs, now, start, timerDue, retried, spawned,
                 launchResult, launchErrors, tornDown, notLaunchVars>>

\* line 275: the connect listener writes the probe request
SocketConnect ==
  /\ launchPc = "awaitProbe"
  /\ sock.state = "connecting"
  /\ sock' = [sock EXCEPT !.state = "connected", !.wrote = TRUE]
  /\ UNCHANGED <<requestType, hasArgs, launchPc, now, start, timerDue,
                 retried, spawned, launchResult, launchErrors, tornDown,
                 notLaunchVars>>

\* line 276: the first data ends the socket and resolves the promise
SocketData ==
  /\ launchPc = "awaitProbe"
  /\ sock.state = "connected"
  /\ sock' = [sock EXCEPT !.gotData = TRUE, !.ended = TRUE]
  /\ launchPc' = "resolved"
  /\ UNCHANGED <<requestType, hasArgs, now, start, timerDue, retried, spawned,
                 launchResult, launchErrors, tornDown, notLaunchVars>>

\* lines 277 and 280: an error rejects the promise; the catch starts the timer
SocketError ==
  /\ launchPc = "awaitProbe"
  /\ sock.state \in {"connecting", "connected"}
  /\ sock' = [sock EXCEPT !.state = "errored"]
  /\ timerDue' = now + Backoff
  /\ retried' = TRUE
  /\ launchPc' = "backoff"
  /\ UNCHANGED <<requestType, hasArgs, now, start, spawned, launchResult,
                 launchErrors, tornDown, notLaunchVars>>

\* line 280: the timer fires and the loop goes round
BackoffTimer ==
  /\ launchPc = "backoff"
  /\ now >= timerDue
  /\ timerDue' = -1
  /\ launchPc' = "loopTop"
  /\ UNCHANGED <<requestType, hasArgs, now, start, sock, retried, spawned,
                 launchResult, launchErrors, tornDown, notLaunchVars>>

\* lines 279 and 305-306: break, pingserver returns, the descriptor is made
ReturnDescriptor ==
  /\ launchPc = "resolved"
  /\ launchResult' = "descriptor"
  /\ launchPc' = "done"
  /\ UNCHANGED <<requestType, hasArgs, now, start, timerDue, sock, retried,
                 spawned, launchErrors, tornDown, notLaunchVars>>

\* Time passes while the loop awaits a socket or the timer; a due timer fires
\* before more time passes.
Tick ==
  /\ \/ launchPc = "awaitProbe" /\ now < MaxNow
     \/ launchPc = "backoff" /\ now < timerDue
  /\ now' = now + TickMs
  /\ UNCHANGED <<requestType, hasArgs, launchPc, start, timerDue, sock,
                 retried, spawned, launchResult, launchErrors, tornDown,
                 notLaunchVars>>

\* The debug session is ended (the user stops it, the editor closes) while
\* pingserver is suspended in one of its awaits.  Neither pingserver nor the
\* factory is told: pingserver takes no cancellation token and the factory
\* registers no listener, so the loop stands where it stood.
Teardown ==
  /\ launchPc \in {"awaitProbe", "backoff"}
  /\ ~tornDown
  /\ tornDown' = TRUE
  /\ UNCHANGED <<requestType, hasArgs, launchPc, now, start, timerDue, sock,
                 retried, spawned, launchResult, launchErrors, notLaunchVars>>

NextLaunch ==
  \/ Attach
  \/ LaunchSpawn
  \/ Unsupported
  \/ PingCheck
  \/ SocketConnect
  \/ SocketData
  \/ SocketError
  \/ BackoffTimer
  \/ ReturnDescriptor
  \/ Tick
  \/ Teardown

SpecLaunch == InitLaunch /\ [][NextLaunch]_vars

\* The event loop runs a continuation that is ready and fires a timer that
\* is due, and time passes; every socket sooner or later fails unless it is
\* answered first (no attempt hangs).
SpecLaunchNoHang ==
  /\ SpecLaunch
  /\ WF_vars(LaunchSpawn)
  /\ WF_vars(PingCheck)
  /\ WF_vars(BackoffTimer)
  /\ WF_vars(ReturnDescriptor)
  /\ WF_vars(Tick)
  /\ WF_vars(SocketError)

---------------------------------------------------------------------------
(* The line profiler: report loading, sessions and decorations (SpecProf)  *)
(*                                                                         *)
(* A session is one LineProfilerDecorator object, numbered in the order of *)
(* construction.  A report tells, for each file, whether it has records.   *)
(* One applyDecorations call creates one decoration type per background    *)
(* colour of the records, at least one; they are kept in one array, set    *)
(* and disposed together, and are one handle here, named by the session,   *)
(* the file and the applyToEditor call that created it (the calls of one   *)
(* session on one file are numbered with the smallest number no live       *)
(* handle and no waiting call bears).                                      *)

Reports == [Files -> BOOLEAN]

\* the decoration types one applyDecorations call creates (lines 529-534)
CreatedDts(s, f, r) == {[s |-> s, f |-> f, r |-> r]}

\* The decoration state the render functions work on.
Deco == [tracked |-> tracked, live |-> liveDts, pending |-> pending]

\* a number for a new applyToEditor call of session s on file f
CallId(d, s, f) ==
  LET used == {h.r : h \in {x \in d.live \cup d.pending : x.s = s /\ x.f = f}}
  IN  CHOOSE r \in 1..(Cardinality(used) + 1) :
        r \notin used /\ \A q \in 1..(r - 1) : q \in used

\* clearEditorDecorations, lines 588-595
clearEditorDecorations(d, s, f) ==
  [d EXCEPT !.live = @ \ d.tracked[s][f], !.tracked[s][f] = {}]

\* a bug: the new decoration types are created without disposing the old
applyDecorations_NoClear(d, s, f, r) ==
  [d EXCEPT !.live = @ \cup CreatedDts(s, f, r),
            !.tracked[s][f] = CreatedDts(s, f, r)]

\* applyDecorations, lines 521-538
applyDecorations(d, s, f, r) ==
  LET cleared == clearEditorDecorations(d, s, f)
      created == CreatedDts(s, f, r)
  IN  [cleared EXCEPT !.live = @ \cup created, !.tracked[s][f] = created]

\* applyToEditor up to its first suspension, lines 540-550, in session s with
\* report rep and cached line maps for the files of cache: without records
\* the file is cleared; with a cached line map the call goes on to
\* applyDecorations before anything else runs; otherwise it awaits the
\* fold-range query.
applyToEditor(d, s, f, rep, cache) ==
  IF ~rep[f] THEN clearEditorDecorations(d, s, f)
  ELSE IF f \in cache
    THEN applyDecorations(d, s, f, CallId(d, s, f))
  ELSE [d EXCEPT !.pending = @ \cup {[s |-> s, f |-> f, r |-> CallId(d, s, f)]}]

\* the visible python editors, in the order of vscode.window.visibleTextEditors
RECURSIVE SeqOfSet(_)
SeqOfSet(S) ==
  IF S = {} THEN <<>>
  ELSE LET x == CHOOSE y \in S : \A z \in S : y = z \/ y \notin {"b.py"}
       IN  <<x>> \o SeqOfSet(S \ {x})

\* the loop of refreshVisibleEditors, lines 403-408
RECURSIVE applyToEditors(_, _, _, _, _)
applyToEditors(d, s, fs, rep, cache) ==
  IF fs = <<>> THEN d
  ELSE applyToEditors(applyToEditor(d, s, Head(fs), rep, cache), s, Tail(fs),
                      rep, cache)

\* refreshVisibleEditors, lines 398-409, of session s while cur is the value
\* of currentLineProfiler
refreshVisibleEditors(d, s, cur, vis, rep, cache) ==
  IF cur = 0 THEN d ELSE applyToEditors(d, s, SeqOfSet(vis), rep, cache)

\* n calls of the refresh closure of line 233, one per registered listener
RECURSIVE refreshTimes(_, _, _, _)
refreshTimes(d, cur, vis, n) ==
  IF n = 0 \/ cur = 0 THEN d
  ELSE refreshTimes(refreshVisibleEditors(d, cur, cur, vis, sessionData[cur],
                                          colorsCached[cur]),
                    cur, vis, n - 1)

\* dispose, lines 390-396: the handles the session tracks are disposed
disposeDeco(d, s) ==
  [d EXCEPT !.live = @ \ UNION {d.tracked[s][f] : f \in Files},
            !.tracked[s] = [f \in Files |-> {}]]

\* the bound on the calls that wait at one time
PendingRoom(d) == Cardinality(d.pending) <= MaxPending

SetDeco(d) ==
  /\ tracked' = d.tracked
  /\ liveDts' = d.live
  /\ pending' = d.pending

InitProf ==
  /\ ProfIdle
  /\ PathIdle
  /\ RelayIdle
  /\ LaunchIdle
  /\ ParseIdle
  /\ BlockIdle
  /\ RenderIdle
  /\ FormatIdle
  /\ CacheIdle
  /\ ConfigIdle
  /\ sourceFolder = RelayRoot

\* pocketpy.loadProfilerReportJson is invoked: the first dialog opens
LoadBegin ==
  /\ loadPc = "idle"
  /\ sessions < MaxSessions
  /\ loadPc' = "dialogJson"
  /\ loadErrors' = 0
  /\ UNCHANGED <<currentLineProfiler, sessions, sessionData, prefixLive, decoVars,
                 colorsCached, visible, listeners, quitPc, quitErrors, notProfVars>>

\* lines 195-203 and 206-213: a dialog is answered or dismissed
LoadDialog(picked) ==
  /\ loadPc \in {"dialogJson", "dialogRoot"}
  /\ loadPc' = IF ~picked THEN "idle"
               ELSE IF loadPc = "dialogJson" THEN "dialogRoot" ELSE "reading"
  /\ UNCHANGED <<currentLineProfiler, sessions, sessionData, prefixLive, decoVars,
                 colorsCached, visible, listeners, quitPc, loadErrors, quitErrors,
                 notProfVars>>

\* a bug: the active session is disposed before the artifact is read
LoadFail_DisposesFirst ==
  /\ loadPc = "reading"
  /\ loadErrors' = loadErrors + 1
  /\ loadPc' = "idle"
  /\ SetDeco(IF currentLineProfiler # 0
               THEN disposeDeco(Deco, currentLineProfiler)
             ELSE Deco)
  /\ prefixLive' = [k \in SessionIds |-> FALSE]
  /\ UNCHANGED <<currentLineProfiler, sessions, sessionData, colorsCached,
                 visible, listeners, quitPc, quitErrors, notProfVars>>

\* lines 216-217 and 238-240: readFile rejects or JSON.parse throws
LoadFail ==
  /\ loadPc = "reading"
  /\ loadErrors' = loadErrors + 1
  /\ loadPc' = "idle"
  /\ UNCHANGED <<currentLineProfiler, sessions, sessionData, prefixLive, decoVars,
                 colorsCached, visible, listeners, quitPc, quitErrors, notProfVars>>

\* lines 217-237: the artifact parses to report rep; the active session is
\* disposed, the new one is constructed and made current, two listeners are
\* registered and the visible editors are refreshed
LoadInstall(rep) ==
  /\ loadPc = "reading"
  /\ LET s == sessions + 1
         d0 == IF currentLineProfiler # 0
                 THEN disposeDeco(Deco, currentLineProfiler)
               ELSE Deco
     IN  /\ sessions' = s
         /\ sessionData' = [sessionData EXCEPT ![s] = rep]
         /\ prefixLive' = [k \in SessionIds |->
                              IF k = s THEN TRUE
                              ELSE IF k = currentLineProfiler THEN FALSE
                              ELSE prefixLive[k]]
         /\ currentLineProfiler' = s
         /\ listeners' = listeners + 1
         /\ PendingRoom(refreshVisibleEditors(d0, s, s, visible, rep, colorsCached[s]))
         /\ SetDeco(refreshVisibleEditors(d0, s, s, visible, rep, colorsCached[s]))
  /\ loadPc' = "idle"
  /\ UNCHANGED <<colorsCached, visible, quitPc, loadErrors, quitErrors,
                 notProfVars>>

\* pocketpy.quitProfilerReportMode, lines 244-249: without a session an error
\* is shown, otherwise the command awaits setContext
QuitBegin ==
  /\ quitPc = "idle"
  /\ IF currentLineProfiler = 0
       THEN /\ quitErrors' = 1
            /\ UNCHANGED quitPc
     ELSE /\ quitErrors' = 0
          /\ quitPc' = "awaitContext"
  /\ UNCHANGED <<currentLineProfiler, sessions, sessionData, prefixLive, decoVars,
                 colorsCached, visible, listeners, loadPc, loadErrors, notProfVars>>

\* lines 250-252: the session that is current now is disposed and dropped
QuitFinish ==
  /\ quitPc = "awaitContext"
  /\ currentLineProfiler # 0
  /\ SetDeco(disposeDeco(Deco, currentLineProfiler))
  /\ prefixLive' = [prefixLive EXCEPT ![currentLineProfiler] = FALSE]
  /\ currentLineProfiler' = 0
  /\ quitPc' = "idle"
  /\ UNCHANGED <<sessions, sessionData, colorsCached, visible, listeners, loadPc,
                 loadErrors, quitErrors, notProfVars>>

\* onDidChangeVisibleTextEditors / onDidChangeActiveTextEditor fires: the set
\* of visible python editors becomes vis and every registered listener calls
\* currentLineProfiler?.refreshVisibleEditors() (lines 233-235)
EditorEvent(vis) ==
  /\ PendingRoom(refreshTimes(Deco, currentLineProfiler, vis, listeners))
  /\ listeners > 0 \/ vis # visible
  /\ visible' = vis
  /\ SetDeco(refreshTimes(Deco, currentLineProfiler, vis, listeners))
  /\ UNCHANGED <<currentLineProfiler, sessions, sessionData, prefixLive,
                 colorsCached, listeners, loadPc, quitPc, loadErrors, quitErrors,
                 notProfVars>>

\* the fold-range query of one applyToEditor call returns: mapLinesToBlocks
\* stores the line map (line 455) and applyToEditor goes on to
\* applyDecorations (lines 551-584)
FoldRangesReturn(p) ==
  /\ p \in pending
  /\ colorsCached' = [colorsCached EXCEPT ![p.s] = @ \cup {p.f}]
  /\ SetDeco(applyDecorations([Deco EXCEPT !.pending = @ \ {p}], p.s, p.f, p.r))
  /\ UNCHANGED <<currentLineProfiler, sessions, sessionData, prefixLive, visible,
                 listeners, loadPc, quitPc, loadErrors, quitErrors, notProfVars>>

NextProf ==
  \/ LoadBegin
  \/ \E picked \in BOOLEAN : LoadDialog(picked)
  \/ LoadFail
  \/ \E rep \in Reports : LoadInstall(rep)
  \/ QuitBegin
  \/ QuitFinish
  \/ \E vis \in SUBSET Files : EditorEvent(vis)
  \/ \E p \in pending : FoldRangesReturn(p)

SpecProf == InitProf /\ [][NextProf]_vars

---------------------------------------------------------------------------
(* The load command reads one artifact: lines 216-230 (SpecParse)          *)
(*                                                                         *)
(* A JSON value is a record with a tag t: null, a number n, a string s (a  *)
(* sequence of characters), an array xs, or an object kv (the sequence of  *)
(* its <<key, value>> members in source order).  Undef is undefined.       *)

Null == [t |-> "null"]
Undef == [t |-> "undef"]
Num(n) == [t |-> "num", n |-> n]
Str(c) == [t |-> "str", s |-> c]
Arr(xs) == [t |-> "arr", xs |-> xs]
Obj(kv) == [t |-> "obj", kv |-> kv]

\* v[key] for a value that is neither null nor undefined; only objects
\* have the two properties the command reads
GetProp(v, key) ==
  IF v.t = "obj" /\ \E i \in DOMAIN v.kv : v.kv[i][1] = key
    THEN v.kv[CHOOSE i \in DOMAIN v.kv :
                /\ v.kv[i][1] = key
                /\ \A j \in DOMAIN v.kv : v.kv[j][1] = key => j <= i][2]
  ELSE Undef

\* the property name of index i of an array or a string
IndexKey(i) == <<ToString(i)>>

\* Object.entries(v)
ObjectEntries(v) ==
  IF v.t = "obj" THEN v.kv
  ELSE IF v.t = "arr" THEN [i \in DOMAIN v.xs |-> <<IndexKey(i - 1), v.xs[i]>>]
  ELSE IF v.t = "str" THEN [i \in DOMAIN v.s |-> <<IndexKey(i - 1), Str(<<v.s[i]>>)>>]
  ELSE <<>>

\* Object.fromEntries(es.map(([k, v]) => [path.normalize(k), v])), lines
\* 218-220: a function from the normalized keys, the last member of a key
\* giving its value
NormalizedRecords(es) ==
  [k \in {Normalize(es[i][1]) : i \in DOMAIN es} |->
     es[CHOOSE i \in DOMAIN es :
          /\ Normalize(es[i][1]) = k
          /\ \A j \in DOMAIN es : Normalize(es[j][1]) = k => j <= i][2]]

\* the resolution taken when CLOCKS_PER_SEC is not a number
DefaultClocksPerSec == 1000000

\* lines 216-230 for the artifact a: JSON.parse throws on text that is not
\* JSON, parsed.records throws on null; otherwise the records are taken as
\* they are and the session is constructed with them
ReadArtifact(a) ==
  IF ~a.json THEN [kind |-> "error"]
  ELSE IF a.value.t = "null" THEN [kind |-> "error"]
  ELSE LET recs == GetProp(a.value, "records")
           cps  == GetProp(a.value, "CLOCKS_PER_SEC")
       IN  [kind |-> "installed",
            data |-> NormalizedRecords(
                       ObjectEntries(IF recs.t \in {"undef", "null"}
                                       THEN Obj(<<>>) ELSE recs)),
            clocksPerSec |-> IF cps.t = "num" THEN cps.n
                             ELSE DefaultClocksPerSec]

\* The artifacts: text that is not JSON, and JSON texts of these values.
\* A record entry is a [line, hits, time] triple, a pair, a number, or a
\* triple with a string in it; a file's value is a list of up to MaxRecords
\* entries, a number or null; the records are absent, null, a number, a
\* string, an array or an object of one or two paths.
Triple == Arr(<<Num(1), Num(1), Num(5)>>)
EntryVals == {Triple, Arr(<<Num(1), Num(2)>>), Num(7),
              Arr(<<Num(1), Str(<<"a">>), Num(5)>>)}

RECURSIVE EntryListsUpTo(_)
EntryListsUpTo(n) ==
  IF n = 0 THEN {<<>>}
  ELSE EntryListsUpTo(n - 1) \cup
       {Append(l, e) : l \in {x \in EntryListsUpTo(n - 1) : Len(x) = n - 1},
                       e \in EntryVals}

FileVals == {Arr(l) : l \in EntryListsUpTo(MaxRecords)} \cup {Num(7), Null}
RecordKeys == {<<"b">>, <<Dot, Sep, "b">>}
RecordsVals ==
  {Undef, Null, Num(3), Str(<<"a", "b">>), Arr(<<Arr(<<Triple>>)>>)}
    \cup {Obj(<<<<k, v>>>>) : k \in RecordKeys, v \in FileVals}
    \cup {Obj(<<<<<<"b">>, v>>, <<<<Dot, Sep, "b">>, Arr(<<Triple>>)>>>>) :
            v \in {Arr(<<>>), Num(7)}}
ClockVals == {Undef, Num(1000), Num(0), Str(<<"a">>)}

TopMembers(r, c) ==
  (IF r = Undef THEN <<>> ELSE <<<<"records", r>>>>)
    \o (IF c = Undef THEN <<>> ELSE <<<<"CLOCKS_PER_SEC", c>>>>)

Artifacts ==
  {[json |-> FALSE, value |-> Null]}
    \cup {[json |-> TRUE, value |-> v] : v \in {Null, Num(1), Arr(<<>>)}}
    \cup {[json |-> TRUE, value |-> Obj(TopMembers(r, c))] :
            r \in RecordsVals, c \in ClockVals}

InitParse ==
  /\ artifact \in {<<a>> : a \in Artifacts}
  /\ parsePc = "start"
  /\ parseOutcome = <<>>
  /\ sourceFolder = RelayRoot
  /\ PathIdle
  /\ RelayIdle
  /\ LaunchIdle
  /\ ProfIdle
  /\ BlockIdle
  /\ RenderIdle
  /\ FormatIdle
  /\ CacheIdle
  /\ ConfigIdle

\* the command reaches step 3 with the picked file
ReadStep ==
  /\ parsePc = "start"
  /\ parseOutcome' = <<ReadArtifact(artifact[1])>>
  /\ parsePc' = "done"
  /\ UNCHANGED <<artifact, notParseVars>>

NextParse == ReadStep

SpecParse == InitParse /\ [][NextParse]_vars

---------------------------------------------------------------------------
(* LineProfilerDecorator.mapLinesToBlocks, lines 422-457 (SpecBlocks)      *)
(*                                                                         *)
(* A fold range is [start, end, def]: 0-based first and last line, and     *)
(* whether the text of the first line starts with "def " after trimStart.  *)
(* A colour is its index in the palette of getBlockColors.  The map goes   *)
(* from 1-based line numbers to <<>> (no entry) or <<[color, blockID]>>;   *)
(* Undefined stands for a field read from a missing entry.                 *)

\* getBlockColors returns five colours
PaletteSize == 5
Undefined == -1

\* lines 439-441: the ends of the ranges closed before the range starts are popped
RECURSIVE PopClosed(_, _)
PopClosed(endStack, frStart) ==
  IF frStart > endStack[Len(endStack)]
    THEN PopClosed(SubSeq(endStack, 1, Len(endStack) - 1), frStart)
  ELSE endStack

\* a bug: the first line of a range is given the new block like the others
FoldStep_DefLineInBlock(st, fr) ==
  IF ~fr.def THEN st
  ELSE LET endStack == PopClosed(st.endStack, fr.start)
           color    == Len(endStack) % PaletteSize
       IN  [lineMap |-> [k \in DOMAIN st.lineMap |->
                           IF k - 1 \in fr.start..fr.end
                             THEN <<[color |-> color, blockID |-> st.nextBlockId]>>
                           ELSE st.lineMap[k]],
            endStack |-> Append(endStack, fr.end),
            nextBlockId |-> st.nextBlockId + 1]

\* a bug: a range that is no function takes a scope id all the same
FoldStep_CountsEveryRange(st, fr) ==
  IF ~fr.def THEN [st EXCEPT !.nextBlockId = @ + 1]
  ELSE LET endStack == PopClosed(st.endStack, fr.start)
           top      == endStack[Len(endStack)]
           color    == Len(endStack) % PaletteSize
           parent   == IF top \in DOMAIN st.lineMap /\ st.lineMap[top] # <<>>
                         THEN st.lineMap[top][1]
                       ELSE [color |-> Undefined, blockID |-> Undefined]
       IN  [lineMap |-> [k \in DOMAIN st.lineMap |->
                           IF k - 1 = fr.start THEN <<parent>>
                           ELSE IF k - 1 \in fr.start..fr.end
                             THEN <<[color |-> color, blockID |-> st.nextBlockId]>>
                           ELSE st.lineMap[k]],
            endStack |-> Append(endStack, fr.end),
            nextBlockId |-> st.nextBlockId + 1]

\* one pass of the loop of lines 436-454
FoldStep(st, fr) ==
  IF ~fr.def THEN st
  ELSE LET endStack == PopClosed(st.endStack, fr.start)
           top      == endStack[Len(endStack)]
           color    == Len(endStack) % PaletteSize
           parent   == IF top \in DOMAIN st.lineMap /\ st.lineMap[top] # <<>>
                         THEN st.lineMap[top][1]
                       ELSE [color |-> Undefined, blockID |-> Undefined]
       IN  [lineMap |-> [k \in DOMAIN st.lineMap |->
                           IF k - 1 = fr.start THEN <<parent>>
                           ELSE IF k - 1 \in fr.start..fr.end
                             THEN <<[color |-> color, blockID |-> st.nextBlockId]>>
                           ELSE st.lineMap[k]],
            endStack |-> Append(endStack, fr.end),
            nextBlockId |-> st.nextBlockId + 1]

RECURSIVE FoldLoop(_, _)
FoldLoop(st, frs) ==
  IF frs = <<>> THEN st ELSE FoldLoop(FoldStep(st, Head(frs)), Tail(frs))

\* mapLinesToBlocks for a document of lineCount lines whose fold ranges are
\* foldRanges (no cached map): the map of line 455
mapLinesToBlocks(lineCount, foldRanges) ==
  FoldLoop([lineMap |-> [k \in 1..lineCount |->
                           IF k = lineCount
                             THEN <<[color |-> 0, blockID |-> 0]>>
                           ELSE <<>>],
            endStack |-> <<lineCount>>,
            nextBlockId |-> 1],
           foldRanges).lineMap

\* blockLevels.get(line) ?? { color: this.getBlockColors()[0], blockID: 0 }
\* (lines 554 and 565)
BlockInfo(map, line) ==
  IF line \in DOMAIN map /\ map[line] # <<>> THEN map[line][1]
  ELSE [color |-> 0, blockID |-> 0]

\* The documents: 1..MaxLines lines, fold ranges ascending by first line
\* and properly nested (two ranges are disjoint or one lies in the other).
FoldsOf(n) == {[start |-> a, end |-> b, def |-> d] :
                 a \in 0..(n - 1), b \in 0..(n - 1), d \in BOOLEAN}
ProperlyNested(frs) ==
  \A i \in DOMAIN frs : \A j \in DOMAIN frs :
    i < j => /\ frs[i].start < frs[j].start
             /\ frs[j].start > frs[i].end \/ frs[j].end <= frs[i].end

RECURSIVE FoldListsFrom(_, _)
FoldListsFrom(n, first) ==
  {<<>>} \cup
  UNION {{<<fr>> \o rest : rest \in {r \in FoldListsFrom(n, fr.start + 1) :
                                      ProperlyNested(<<fr>> \o r)}} :
           fr \in {x \in FoldsOf(n) : x.start >= first /\ x.start < x.end}}

Documents ==
  UNION {{[lineCount |-> n, folds |-> frs] : frs \in FoldListsFrom(n, 0)} :
           n \in 1..MaxLines}

InitBlocks ==
  /\ document \in {<<d>> : d \in Documents}
  /\ blockPc = "start"
  /\ lineMap = <<>>
  /\ sourceFolder = RelayRoot
  /\ PathIdle
  /\ RelayIdle
  /\ LaunchIdle
  /\ ProfIdle
  /\ ParseIdle
  /\ RenderIdle
  /\ FormatIdle
  /\ CacheIdle
  /\ ConfigIdle

\* the fold-range query has returned and the map is built
CallMapLinesToBlocks ==
  /\ blockPc = "start"
  /\ lineMap' = <<mapLinesToBlocks(document[1].lineCount, document[1].folds)>>
  /\ blockPc' = "done"
  /\ UNCHANGED <<document, notBlockVars>>

NextBlocks == CallMapLinesToBlocks

SpecBlocks == InitBlocks /\ [][NextBlocks]_vars

---------------------------------------------------------------------------
(* Numbers: the double arithmetic of time / totalTime and ratio * 100      *)
(*                                                                         *)
(* A positive double is [bits, exp]: the value 0.b1 b2 ... b53 times       *)
(* 2^exp, with b1 = 1 (53 significant bits, bits a sequence of 0 and 1).   *)
(* Results are rounded to nearest, ties to even.                           *)

\* significant bits of a double
Precision == 53

RECURSIVE LeadingShift(_, _, _)
\* r * 2^z for the least z with 2 * r * 2^z >= t, and that z (r < t)
LeadingShift(r, t, z) ==
  IF 2 * r < t THEN LeadingShift(2 * r, t, z + 1) ELSE [r |-> r, z |-> z]

RECURSIVE QuotientBits(_, _, _)
\* the first n bits of r / t after the binary point (r < t)
QuotientBits(r, t, n) ==
  IF n = 0 THEN <<>>
  ELSE <<(2 * r) \div t>> \o QuotientBits((2 * r) % t, t, n - 1)

RECURSIVE QuotientRem(_, _, _)
\* the remainder left after those n bits
QuotientRem(r, t, n) ==
  IF n = 0 THEN r ELSE QuotientRem((2 * r) % t, t, n - 1)

\* bits + 1 in the same number of bits; all ones wrap to zeros
IncBits(bits) ==
  SubSeq([i \in 1..Len(bits) |->
            IF \A j \in (i + 1)..Len(bits) : bits[j] = 1 THEN 1 - bits[i]
            ELSE bits[i]], 1, Len(bits))

\* the double nearest to 0.bits * 2^exp, bits having more than Precision
\* bits and sticky telling that non-zero bits follow them
RoundToDouble(bits, sticky, exp) ==
  LET m     == SubSeq(bits, 1, Precision)
      guard == bits[Precision + 1]
      rest  == sticky \/ \E i \in (Precision + 2)..Len(bits) : bits[i] = 1
      up    == guard = 1 /\ (rest \/ m[Precision] = 1)
      inc   == IncBits(m)
  IN  IF ~up THEN [bits |-> m, exp |-> exp]
      ELSE IF inc[1] = 0
        THEN [bits |-> [i \in 1..Precision |-> IF i = 1 THEN 1 ELSE 0],
              exp |-> exp + 1]
      ELSE [bits |-> inc, exp |-> exp]

RECURSIVE ScaledDivisor(_, _, _)
\* t * 2^z for the least z with r < t * 2^z, and that z
ScaledDivisor(r, t, z) ==
  IF r < t THEN [t |-> t, z |-> z] ELSE ScaledDivisor(r, 2 * t, z + 1)

\* the double time / total for positive integers
DoubleDivide(time, total) ==
  IF time < total
    THEN LET sh == LeadingShift(time, total, 0)
         IN  RoundToDouble(QuotientBits(sh.r, total, Precision + 1),
                           QuotientRem(sh.r, total, Precision + 1) # 0, 0 - sh.z)
  ELSE LET sc == ScaledDivisor(time, total, 0)
       IN  RoundToDouble(QuotientBits(time, sc.t, Precision + 1),
                         QuotientRem(time, sc.t, Precision + 1) # 0, sc.z)

\* the carry into place i of a + b
CarryInto(a, b, i) ==
  IF \E j \in (i + 1)..Len(a) :
       /\ a[j] = 1 /\ b[j] = 1
       /\ \A k \in (i + 1)..(j - 1) : a[k] # b[k]
    THEN 1
  ELSE 0

\* a + b for bit sequences of one length whose sum fits in it
AddBits(a, b) ==
  SubSeq([i \in 1..Len(a) |-> (a[i] + b[i] + CarryInto(a, b, i)) % 2],
         1, Len(a))

\* bits shifted left by k places in a field of w bits
ShiftedIn(bits, k, w) ==
  SubSeq([i \in 1..w |-> IF i <= w - k - Len(bits) \/ i > w - k THEN 0
                         ELSE bits[i - (w - k - Len(bits))]], 1, w)

\* bits without its leading zeros (some bit is 1)
StripZeros(bits) ==
  SubSeq(bits,
         CHOOSE i \in 1..Len(bits) :
           bits[i] = 1 /\ \A j \in 1..(i - 1) : bits[j] = 0,
         Len(bits))

RECURSIVE TimesNat(_, _, _, _)
\* bits * k * 2^shift in a field of w bits: the sum of bits shifted to the
\* places of the ones of k
TimesNat(bits, k, shift, w) ==
  IF k = 0 THEN [i \in 1..w |-> 0]
  ELSE IF k % 2 = 1
    THEN AddBits(TimesNat(bits, k \div 2, shift + 1, w), ShiftedIn(bits, shift, w))
  ELSE TimesNat(bits, k \div 2, shift + 1, w)

\* the double nearest to the integer prod times 2^exp
RoundProduct(prod, exp) == RoundToDouble(Append(prod, 0), FALSE, exp + Len(prod))

\* the double x * k for a double x > 0 and an integer 0 < k < 2^20
DoubleTimes(x, k) ==
  RoundProduct(StripZeros(TimesNat(x.bits, k, 0, Precision + 20)),
               x.exp - Precision)

\* the double x * 100
DoubleTimes100(x) == DoubleTimes(x, 100)

RECURSIVE BitsToNat(_, _)
BitsToNat(bits, acc) ==
  IF bits = <<>> THEN acc ELSE BitsToNat(Tail(bits), 2 * acc + Head(bits))

\* Math.round(x) for a positive double below 2^Precision: floor(x + 1/2)
MathRound(x) ==
  IF x.exp < 0 THEN 0
  ELSE BitsToNat(SubSeq(x.bits, 1, x.exp), 0) + x.bits[x.exp + 1]

\* Math.floor(x) for a double 1 <= x < 2^Precision
MathFloor(x) == BitsToNat(SubSeq(x.bits, 1, x.exp), 0)

\* the bits of x after the binary point (1 <= x < 2^Precision)
FractionBits(x) == SubSeq(x.bits, x.exp + 1, Precision)

\* x has no fraction
IsWhole(x) == \A i \in (x.exp + 1)..Precision : x.bits[i] = 0

\* the double x - Math.floor(x) when x is not whole: the difference has no
\* more significant bits than x and is exact
FractionOf(x) ==
  LET frac == StripZeros(FractionBits(x))
  IN  [bits |-> frac \o [i \in 1..(Precision - Len(frac)) |-> 0],
       exp |-> Len(frac) - Len(FractionBits(x))]

\* lines 567-568 for integers 0 <= time <= totalTime: time / totalTime is
\* NaN for 0 / 0 and `|| 0` makes NaN and 0 the ratio 0; 1 * 100 is 100
Percent(time, totalTime) ==
  IF time = 0 THEN 0
  ELSE IF time = totalTime THEN 100
  ELSE MathRound(DoubleTimes100(DoubleDivide(time, totalTime)))

---------------------------------------------------------------------------
(* LineProfilerDecorator.applyToEditor, lines 540-585 (SpecRender)         *)
(*                                                                         *)
(* The editor shows a document of lineCount lines with its fold ranges;    *)
(* records is this.data[relPath], a list of [line, hits, time].  The       *)
(* render makes one line decoration and one gutter label per record, and   *)
(* one empty gutter label per row of the document no record names; a row   *)
(* is a 0-based line of the editor.  The background colour of a line       *)
(* decoration (generateBackgroundColor) is left out: it only groups the    *)
(* line decorations into decoration types.                                 *)

\* lines 553-558: the times of the records summed by scope id
RECURSIVE SumBlockTimes(_, _, _)
SumBlockTimes(blockLevels, records, blockTimes) ==
  IF records = <<>> THEN blockTimes
  ELSE LET id == BlockInfo(blockLevels, Head(records).line).blockID
       IN  SumBlockTimes(blockLevels, Tail(records),
                         [b \in DOMAIN blockTimes \cup {id} |->
                            (IF b \in DOMAIN blockTimes THEN blockTimes[b] ELSE 0)
                            + (IF b = id THEN Head(records).time ELSE 0)])

\* createLineDecoration and createHoverMessage (lines 468-479)
LineOption(rec, percent) ==
  [row |-> rec.line - 1, percent |-> percent, time |-> rec.time,
   hits |-> rec.hits]

\* createPrefixDecoration (lines 481-505)
PrefixOption(rec, percent, blockColor) ==
  [row |-> rec.line - 1, label |-> <<percent>>, color |-> <<blockColor>>]

\* createPaddingDecoration (lines 507-519)
PaddingOption(i) == [row |-> i, label |-> <<>>, color |-> <<>>]

\* lines 565-568: the percent of one record
RecordPercent(blockLevels, blockTimes, rec) ==
  Percent(rec.time, blockTimes[BlockInfo(blockLevels, rec.line).blockID])

\* lines 564-579: the line decorations, in the order of the records
RECURSIVE LineOptions(_, _, _)
LineOptions(blockLevels, blockTimes, records) ==
  IF records = <<>> THEN <<>>
  ELSE <<LineOption(Head(records),
                    RecordPercent(blockLevels, blockTimes, Head(records)))>>
       \o LineOptions(blockLevels, blockTimes, Tail(records))

\* lines 564-579: the gutter labels of the records
RECURSIVE RecordPrefixes(_, _, _)
RecordPrefixes(blockLevels, blockTimes, records) ==
  IF records = <<>> THEN <<>>
  ELSE <<PrefixOption(Head(records),
                      RecordPercent(blockLevels, blockTimes, Head(records)),
                      BlockInfo(blockLevels, Head(records).line).color)>>
       \o RecordPrefixes(blockLevels, blockTimes, Tail(records))

\* lines 580-583: the empty labels of the rows from i on that are not covered
RECURSIVE Paddings(_, _, _)
Paddings(i, totalLines, coveredLines) ==
  IF i >= totalLines THEN <<>>
  ELSE (IF i \in coveredLines THEN <<>> ELSE <<PaddingOption(i)>>)
       \o Paddings(i + 1, totalLines, coveredLines)

\* applyToEditor: what it hands to applyDecorations (line 584), or the
\* cleared editor of lines 544-548
RenderEditor(lineCount, foldRanges, records) ==
  IF records = <<>>
    THEN [lineOptions |-> <<>>, prefixOptions |-> <<>>]
  ELSE LET blockLevels == mapLinesToBlocks(lineCount, foldRanges)
           blockTimes  == SumBlockTimes(blockLevels, records, <<>>)
       IN  [lineOptions |-> LineOptions(blockLevels, blockTimes, records),
            prefixOptions |->
              RecordPrefixes(blockLevels, blockTimes, records)
              \o Paddings(0, lineCount,
                          {records[i].line - 1 : i \in DOMAIN records})]

\* The inputs: documents of 1..MaxRenderLines lines and record lists of up
\* to MaxRecords records whose lines are lines of the document or the line
\* after its last one.
RenderTimes == {0, 17, 23}
RenderRecords(n) ==
  {[line |-> l, hits |-> 1, time |-> t] : l \in 1..(n + 1), t \in RenderTimes}
RECURSIVE RecordListsUpTo(_, _)
RecordListsUpTo(n, k) ==
  IF k = 0 THEN {<<>>}
  ELSE LET shorter == RecordListsUpTo(n, k - 1)
       IN  shorter \cup {Append(rs, r) : rs \in shorter, r \in RenderRecords(n)}
RenderInputs ==
  UNION {{[lineCount |-> n, folds |-> frs, records |-> rs] :
            frs \in FoldListsFrom(n, 0), rs \in RecordListsUpTo(n, MaxRecords)} :
           n \in 1..MaxRenderLines}

InitRender ==
  /\ renderInput \in {<<x>> : x \in RenderInputs}
  /\ renderPc = "start"
  /\ renderOutput = <<>>
  /\ sourceFolder = RelayRoot
  /\ PathIdle
  /\ RelayIdle
  /\ LaunchIdle
  /\ ProfIdle
  /\ ParseIdle
  /\ BlockIdle
  /\ FormatIdle
  /\ CacheIdle
  /\ ConfigIdle

\* one call of applyToEditor, up to its call of applyDecorations
CallApplyToEditor ==
  /\ renderPc = "start"
  /\ renderOutput' = <<RenderEditor(renderInput[1].lineCount,
                                    renderInput[1].folds,
                                    renderInput[1].records)>>
  /\ renderPc' = "done"
  /\ UNCHANGED <<renderInput, notRenderVars>>

NextRender == CallApplyToEditor

SpecRender == InitRender /\ [][NextRender]_vars

---------------------------------------------------------------------------
(* LineProfilerDecorator.formatDuration, lines 605-625 (SpecFormat)        *)
(*                                                                         *)
(* The string returned is the sequence of its parts, a part being a number *)
(* and its unit: <<[n |-> 1, unit |-> "s"], [n |-> 500, unit |-> "ms"]>>   *)
(* is "1s 500ms".  The unit "us" is the string "µs" of the code.           *)

Part(n, unit) == [n |-> n, unit |-> unit]

\* lines 612-616 and 617-621: the whole part of x (x >= 1) in one unit and
\* the rounded remainder, if positive, in the next
WholeAndRemainder(x, unit, nextUnit) ==
  LET whole  == MathFloor(x)
      remain == IF IsWhole(x) THEN 0
                ELSE MathRound(DoubleTimes(FractionOf(x), 1000))
  IN  IF remain > 0 THEN <<Part(whole, unit), Part(remain, nextUnit)>>
      ELSE <<Part(whole, unit)>>

\* formatDuration(clockTicks) of a decorator whose clocksPerSec is given,
\* for integers clockTicks >= 0 and clocksPerSec >= 0
formatDuration(clockTicks, clocksPerSec) ==
  IF clockTicks = 0 THEN <<Part(0, "us")>>
  ELSE LET seconds == DoubleDivide(clockTicks,
                                   IF clocksPerSec = 0 THEN 1 ELSE clocksPerSec)
           ms      == DoubleTimes(seconds, 1000)
           us      == DoubleTimes(seconds, 1000000)
       IN  IF seconds.exp >= 1 THEN WholeAndRemainder(seconds, "s", "ms")
           ELSE IF ms.exp >= 1 THEN WholeAndRemainder(ms, "ms", "us")
           ELSE <<Part(MathRound(us), "us")>>

\* The inputs: the tick counts up to MaxTicks and a few larger ones, at the
\* default clocksPerSec and at two smaller ones.
TickSamples == {2500, 1000500, 1500000, 1999600}
ClockRates == {80, 1000, DefaultClocksPerSec}
FormatInputs ==
  {[clockTicks |-> t, clocksPerSec |-> c] :
     t \in 0..MaxTicks \cup TickSamples, c \in ClockRates}

InitFormat ==
  /\ formatInput \in {<<x>> : x \in FormatInputs}
  /\ formatPc = "start"
  /\ formatOutput = <<>>
  /\ sourceFolder = RelayRoot
  /\ PathIdle
  /\ RelayIdle
  /\ LaunchIdle
  /\ ProfIdle
  /\ ParseIdle
  /\ BlockIdle
  /\ RenderIdle
  /\ CacheIdle
  /\ ConfigIdle

\* one call of formatDuration
CallFormatDuration ==
  /\ formatPc = "start"
  /\ formatOutput' = <<formatDuration(formatInput[1].clockTicks,
                                      formatInput[1].clocksPerSec)>>
  /\ formatPc' = "done"
  /\ UNCHANGED <<formatInput, notFormatVars>>

NextFormat == CallFormatDuration

SpecFormat == InitFormat /\ [][NextFormat]_vars

---------------------------------------------------------------------------
(* The line map cache of one file: editorToColors (SpecCache)              *)
(*                                                                         *)
(* One python file with records is followed through loads, quits, editor   *)
(* events and fold-range answers.  Each decorator has its own              *)
(* editorToColors (line 366); mapsUsed records, for every mapLinesToBlocks *)
(* call that has returned, the decorator it ran in, the map it returned    *)
(* to applyToEditor and the decorator that was active at that time.        *)

\* finished mapLinesToBlocks calls that are recorded
MaxRenders == 3

\* What vscode.executeFoldingRangeProvider may answer for the file, which
\* has MaxRenderLines lines: nothing (`?? []`, line 430) or the range of the
\* function that begins on its first line.
FoldAnswers ==
  {<<>>, <<[start |-> 0, end |-> MaxRenderLines - 1, def |-> TRUE]>>}

\* s without its i-th element
RemoveAt(s, i) == SubSeq(s, 1, i - 1) \o SubSeq(s, i + 1, Len(s))

\* lines 422-427 in decorator s: the cached map is returned at once, or the
\* call awaits the fold ranges
StartMapLinesToBlocks(s) ==
  IF editorToColors[s] # <<>>
    THEN /\ Len(mapsUsed) < MaxRenders
         /\ mapsUsed' = Append(mapsUsed, [s |-> s, map |-> editorToColors[s][1],
                                          active |-> s])
         /\ UNCHANGED foldQueries
  ELSE /\ Len(foldQueries) < MaxPending
       /\ foldQueries' = Append(foldQueries, s)
       /\ UNCHANGED mapsUsed

InitCache ==
  /\ sourceFolder = RelayRoot
  /\ PathIdle
  /\ RelayIdle
  /\ LaunchIdle
  /\ ProfIdle
  /\ ParseIdle
  /\ BlockIdle
  /\ RenderIdle
  /\ FormatIdle
  /\ CacheIdle
  /\ ConfigIdle

\* the load command, lines 226-236: a new decorator with an empty
\* editorToColors becomes the active one and refreshes the visible editors;
\* shown tells whether the file is in one of them
CacheLoad(shown) ==
  /\ decorators < MaxSessions
  /\ decorators' = decorators + 1
  /\ activeDecorator' = decorators + 1
  /\ IF shown
       THEN /\ Len(foldQueries) < MaxPending
            /\ foldQueries' = Append(foldQueries, decorators + 1)
     ELSE UNCHANGED foldQueries
  /\ UNCHANGED <<editorToColors, mapsUsed, notCacheVars>>

\* the quit command, lines 250-252: dispose leaves editorToColors as it is
CacheQuit ==
  /\ activeDecorator # 0
  /\ activeDecorator' = 0
  /\ UNCHANGED <<decorators, editorToColors, foldQueries, mapsUsed,
                 notCacheVars>>

\* an editor event with the file visible: the listener of line 233 has the
\* active decorator render it (lines 398-409, 540-550)
CacheRefresh ==
  /\ activeDecorator # 0
  /\ StartMapLinesToBlocks(activeDecorator)
  /\ UNCHANGED <<decorators, activeDecorator, editorToColors, notCacheVars>>

\* the fold-range query of the i-th waiting call returns answer: lines
\* 432-456 build the map, store it in the decorator's editorToColors and
\* return it
CacheFoldReturn(i, answer) ==
  /\ i \in DOMAIN foldQueries
  /\ Len(mapsUsed) < MaxRenders
  /\ LET s   == foldQueries[i]
         map == mapLinesToBlocks(MaxRenderLines, answer)
     IN  /\ editorToColors' = [editorToColors EXCEPT ![s] = <<map>>]
         /\ mapsUsed' = Append(mapsUsed, [s |-> s, map |-> map,
                                          active |-> activeDecorator])
  /\ foldQueries' = RemoveAt(foldQueries, i)
  /\ UNCHANGED <<decorators, activeDecorator, notCacheVars>>

NextCache ==
  \/ \E shown \in BOOLEAN : CacheLoad(shown)
  \/ CacheQuit
  \/ CacheRefresh
  \/ \E i \in 1..MaxPending : \E answer \in FoldAnswers : CacheFoldReturn(i, answer)

SpecCache == InitCache /\ [][NextCache]_vars

---------------------------------------------------------------------------
(* The setting files.readonlyInclude (SpecConfig)                          *)
(*                                                                         *)
(* readonlyInclude is the value that getConfiguration("files").get returns;*)
(* an update() call is not awaited by the commands (lines 227, 251, 256,   *)
(* 386), so its value waits in configUpdates until it lands and replaces   *)
(* the setting.  A key of the setting is the path of a file of a report.   *)

\* update() calls that have not landed
MaxUpdates == 3

ConfigValues == [Files -> {None, "true", "false"}]
EmptyConfig == [f \in Files |-> None]

\* the files the setting marks read-only
MarkedReadOnly(cfg) == {f \in Files : cfg[f] = "true"}

\* lines 378-385: the value the constructor hands to update()
MarkedInclude(cfg, files) ==
  [f \in Files |-> IF f \in files THEN "true" ELSE cfg[f]]

\* lines 598-601: the value clearReadOnlyConfig hands to update()
ClearedInclude(cfg, files) ==
  [f \in Files |-> IF f \in files THEN "false" ELSE cfg[f]]

\* activation, line 256: whatever the workspace setting holds from earlier,
\* an update to {} is on its way
InitConfig ==
  /\ readonlyInclude \in ConfigValues
  /\ configUpdates = <<EmptyConfig>>
  /\ analysisFiles = <<>>
  /\ sourceFolder = RelayRoot
  /\ PathIdle
  /\ RelayIdle
  /\ LaunchIdle
  /\ ProfIdle
  /\ ParseIdle
  /\ BlockIdle
  /\ RenderIdle
  /\ FormatIdle
  /\ CacheIdle

\* the load command, lines 226-231, for a report on files: the old
\* decorator's clearReadOnlyConfig and the new decorator's constructor both
\* read the setting as it is now and each call update()
ConfigLoad(files) ==
  LET issued ==
        (IF analysisFiles # <<>>
           THEN <<ClearedInclude(readonlyInclude, analysisFiles[1])>>
         ELSE <<>>) \o <<MarkedInclude(readonlyInclude, files)>>
  IN  /\ Len(configUpdates) + Len(issued) <= MaxUpdates
      /\ configUpdates' = configUpdates \o issued
      /\ analysisFiles' = <<files>>
      /\ UNCHANGED <<readonlyInclude, notConfigVars>>

\* the quit command, lines 250-252
ConfigQuit ==
  /\ analysisFiles # <<>>
  /\ Len(configUpdates) < MaxUpdates
  /\ configUpdates' =
       Append(configUpdates, ClearedInclude(readonlyInclude, analysisFiles[1]))
  /\ analysisFiles' = <<>>
  /\ UNCHANGED <<readonlyInclude, notConfigVars>>

\* the i-th update on its way lands: its value replaces the setting
UpdateLands(i) ==
  /\ i \in DOMAIN configUpdates
  /\ readonlyInclude' = configUpdates[i]
  /\ configUpdates' = RemoveAt(configUpdates, i)
  /\ UNCHANGED <<analysisFiles, notConfigVars>>

NextConfig ==
  \/ \E files \in SUBSET Files : ConfigLoad(files)
  \/ ConfigQuit
  \/ \E i \in 1..MaxUpdates : UpdateLands(i)

SpecConfig == InitConfig /\ [][NextConfig]_vars

---------------------------------------------------------------------------
(* Claims about the path helpers (SpecPath) *)

\* p is what path.resolve would return: absolute, no empty, "." or ".."
\* segment, no trailing separator
IsResolved(p) == IsAbsolute(p) /\ Resolve(p) = p
WithSep(root) == IF EndsWithSep(root) THEN root ELSE Append(root, Sep)
\* p is the root or starts with the root and a separator
LexUnder(root, p) == p = root \/ StartsWith(p, WithSep(root))
\* the resolved root is a prefix, segment by segment, of the resolved p
SegUnder(root, p) ==
  LET r == ResolveSegs(root)
      q == ResolveSegs(p)
  IN  Len(r) <= Len(q) /\ SubSeq(q, 1, Len(r)) = r
\* what follows the root and its separator in p
AfterRoot(root, p) ==
  IF p = root THEN <<>> ELSE SubSeq(p, Len(WithSep(root)) + 1, Len(p))

\* C1 as stated: for every absolute path p under the source root,
\* toAbsolutePath(toRelativePath(p)) is exactly p.
C1_RoundTripEveryPath ==
  (pathPc = "absDone" /\ IsAbsolute(pathArg) /\ LexUnder(sourceFolder, pathArg))
    => absResult = pathArg

\* C1 amended: for every absolute path p under the source root that is in
\* resolved form (no empty, "." or ".." segment and no trailing separator),
\* toAbsolutePath(toRelativePath(p)) is exactly p.
C1_RoundTripResolved ==
  (pathPc = "absDone" /\ IsResolved(pathArg) /\ LexUnder(sourceFolder, pathArg))
    => absResult = pathArg

C1_Witness ==
  /\ pathPc = "absDone"
  /\ IsResolved(pathArg)
  /\ LexUnder(sourceFolder, pathArg)
  /\ pathArg # sourceFolder
  /\ relResult # pathArg
  /\ absResult = pathArg

\* C2: toRelativePath returns a path that does not lie under the source
\* root unchanged, and a path under the root as the root-relative path.
C2_OutsideRootUnchanged ==
  pathPc # "start" =>
    /\ (IsAbsolute(pathArg) /\ ~SegUnder(sourceFolder, pathArg))
          => relResult = pathArg
    /\ (IsResolved(pathArg) /\ LexUnder(sourceFolder, pathArg))
          => relResult = AfterRoot(sourceFolder, pathArg)

---------------------------------------------------------------------------
(* Claims about the tracker (SpecRelay) *)

\* C3: an outbound message leaves the tracker as it came, except for
\* arguments.source.path of a setBreakpoints command that carries one.
C3_OutboundFrame ==
  /\ Len(outForwarded) = Len(outObserved)
  /\ \A i \in 1..Len(outObserved) :
       LET m == outObserved[i]
           f == outForwarded[i]
       IN  IF m.command = "setBreakpoints" /\ TruthyPath(ArgumentsPath(m))
             THEN /\ f.arguments # Absent
                  /\ f.arguments[1].source # Absent
                  /\ f = [m EXCEPT !.arguments[1].source[1].path =
                                      f.arguments[1].source[1].path]
           ELSE f = m

C3_Witness ==
  \E i, j \in 1..Len(outObserved) :
    /\ outObserved[i].command = "setBreakpoints"
    /\ outForwarded[i] # outObserved[i]
    /\ outObserved[j].command = "source"
    /\ TruthyPath(ArgumentsPath(outObserved[j]))

\* C4: after the tracker has worked on an inbound message, body.source.path
\* is absolute when the message has one, and so is the source.path of every
\* stack frame that has one, whatever the length of the frame list; a frame
\* without a source path is as it was.  ("has one" is the code's test: the
\* field is a non-empty string.)
C4_InboundPathsAbsolute ==
  \A i \in 1..Len(inForwarded) :
    LET m == inObserved[i]
        f == inForwarded[i]
    IN  /\ TruthyPath(BodyPath(m)) =>
             (TruthyPath(BodyPath(f)) /\ IsAbsolute(BodyPath(f)[1]))
        /\ BodyFrames(f).kind = BodyFrames(m).kind
        /\ Len(BodyFrames(f).items) = Len(BodyFrames(m).items)
        /\ \A k \in 1..Len(BodyFrames(m).items) :
             LET mf == BodyFrames(m).items[k]
                 ff == BodyFrames(f).items[k]
             IN  IF TruthyPath(SourcePath(mf.source))
                   THEN /\ TruthyPath(SourcePath(ff.source))
                        /\ IsAbsolute(SourcePath(ff.source)[1])
                 ELSE ff = mf

C4_Witness ==
  \E i \in 1..Len(inForwarded) :
    /\ Len(BodyFrames(inObserved[i]).items) = MaxFrames
    /\ \E k \in 1..MaxFrames :
         /\ TruthyPath(SourcePath(BodyFrames(inObserved[i]).items[k].source))
         /\ ~IsAbsolute(SourcePath(BodyFrames(inObserved[i]).items[k].source)[1])
         /\ IsAbsolute(SourcePath(BodyFrames(inForwarded[i]).items[k].source)[1])
    /\ \E k \in 1..MaxFrames :
         ~TruthyPath(SourcePath(BodyFrames(inObserved[i]).items[k].source))

IsFatalErrorEvent(m) == m.type = "event" /\ m.event = "fatalError"
C6_OneNotificationPerFatalError ==
  LET fatal == SelectSeq(inObserved, IsFatalErrorEvent)
  IN  /\ Len(notifications) = Len(fatal)
      /\ \A k \in 1..Len(fatal) :
           notifications[k].text =
             IF BodyText(fatal[k]) \in {Absent, Some("")}
               THEN "Unknown fatal error"
             ELSE BodyText(fatal[k])[1]
      /\ Len(inForwarded) = Len(inObserved)
      /\ \A i \in 1..Len(inObserved) :
           IsFatalErrorEvent(inObserved[i]) => IsFatalErrorEvent(inForwarded[i])

C6_Witness ==
  /\ Len(inObserved) = 2
  /\ IsFatalErrorEvent(inObserved[1])
  /\ BodyText(inObserved[1]) = Some("boom")
  /\ ~IsFatalErrorEvent(inObserved[2])
  /\ inObserved[2].event = "fatalError"
  /\ Len(notifications) = 1
  /\ notifications[1].text = "boom"
  /\ inForwarded[1] = inObserved[1]

---------------------------------------------------------------------------
(* Claims about the launch (SpecLaunch, SpecLaunchNoHang) *)

\* C7: a launch yields its descriptor only after the debuggee was spawned
\* and a probe socket, opened after the spawn, connected, wrote the request,
\* received data and was ended.
C7_DescriptorAfterProbe ==
  /\ sock.state # "none" => spawned
  /\ (requestType = "launch" /\ launchResult = "descriptor") =>
       /\ spawned
       /\ sock.state = "connected"
       /\ sock.wrote
       /\ sock.gotData
       /\ sock.ended

C7_Witness ==
  /\ requestType = "launch"
  /\ launchResult = "descriptor"
  /\ retried
  /\ sock.gotData
  /\ now > Backoff

C9_HangBounded ==
  now - start > Timeout + Backoff => launchPc # "awaitProbe"

---------------------------------------------------------------------------
(* Claims about the profiler sessions (SpecProf) *)

\* C10: while a report is active, every live decoration type belongs to the
\* active session: no decoration type of a session that a later load has
\* replaced is live, also after a render of the replaced session that
\* awaited its fold-range query at the replacement has resumed.
C10_NoHandleOfReplacedSession ==
  currentLineProfiler # 0 =>
    /\ \A d \in liveDts : d.s = currentLineProfiler
    /\ \A s \in SessionIds : prefixLive[s] => s = currentLineProfiler

\* the live decoration types of session s on file f
LiveOf(s, f) == {d \in liveDts : d.s = s /\ d.f = f}

\* C11: in every session the live decoration types of a file are the ones
\* the session tracks for it, the handles of one render at most; and when a
\* render that awaited its fold-range query applies, the live decoration
\* types of its file are exactly the ones it created, whatever renders of
\* the file were applied or are still waiting.
C11_OnlyLastRenderLive ==
  /\ [](\A s \in SessionIds : \A f \in Files :
          /\ LiveOf(s, f) = tracked[s][f]
          /\ Cardinality(LiveOf(s, f)) <= 1)
  /\ [][\A p \in pending :
          pending' = pending \ {p} =>
            {d \in liveDts' : d.s = p.s /\ d.f = p.f} = CreatedDts(p.s, p.f, p.r)]_vars

\* two renders of one file overlapped: the later one has applied, the
\* earlier one still awaits its query
C11_Witness ==
  \E s \in SessionIds : \E f \in Files :
    /\ [s |-> s, f |-> f, r |-> 1] \in pending
    /\ LiveOf(s, f) = {[s |-> s, f |-> f, r |-> 2]}

\* C12: the step in which a load fails (the artifact is not read or not
\* parsed, no session is constructed) shows one error message, the only one
\* of that load, and leaves the active session, every session's report and
\* line maps, the decoration types and the listeners as they were.
C12_FailedLoadKeepsState ==
  /\ [](loadErrors <= 1)
  /\ [][(loadPc = "reading" /\ loadPc' = "idle" /\ sessions' = sessions) =>
          /\ loadErrors' = 1
          /\ UNCHANGED <<currentLineProfiler, sessionData, prefixLive, decoVars,
                         colorsCached, visible, listeners>>]_vars

\* a load has failed while a report with live decorations is active
C12_Witness ==
  /\ loadPc = "idle"
  /\ loadErrors = 1
  /\ currentLineProfiler # 0
  /\ prefixLive[currentLineProfiler]
  /\ LiveOf(currentLineProfiler, "b.py") # {}

---------------------------------------------------------------------------
(* Claims about reading an artifact (SpecParse) *)

IsTriple(e) ==
  e.t = "arr" /\ Len(e.xs) = 3 /\ \A i \in 1..3 : e.xs[i].t = "num"
IsRecordList(v) == v.t = "arr" /\ \A i \in DOMAIN v.xs : IsTriple(v.xs[i])

\* { records?: { relPath: [[line, hits, time], ...] }, CLOCKS_PER_SEC? },
\* the records missing (or null) being tolerated
MatchesSchema(a) ==
  /\ a.json
  /\ a.value.t = "obj"
  /\ LET recs == GetProp(a.value, "records")
     IN  \/ recs.t \in {"undef", "null"}
         \/ /\ recs.t = "obj"
            /\ \A i \in DOMAIN recs.kv : IsRecordList(recs.kv[i][2])

\* C13: an artifact that is not JSON, or whose records are not an object of
\* path to list of [line, hits, time] number triples, is rejected with an
\* error and never installed.
C13_InvalidArtifactRejected ==
  parsePc = "done" =>
    (parseOutcome[1].kind = "installed" => MatchesSchema(artifact[1]))

---------------------------------------------------------------------------
(* Claims about mapLinesToBlocks (SpecBlocks) *)

\* The function ranges of a fold list are the ones marked def.  The scope
\* id of the i-th range is its rank among the function ranges; its colour
\* is its nesting depth in the palette, the module being depth 0.
ModuleScope == [color |-> 0, blockID |-> 0]
Enclosing(frs, i) ==
  {j \in 1..(i - 1) : frs[j].def /\ frs[j].end >= frs[i].end}
MaxOf(S) == CHOOSE x \in S : \A y \in S : y <= x
ScopeOf(frs, i) ==
  [color |-> (Cardinality(Enclosing(frs, i)) + 1) % PaletteSize,
   blockID |-> Cardinality({j \in 1..i : frs[j].def})]
ParentScope(frs, i) ==
  IF Enclosing(frs, i) = {} THEN ModuleScope
  ELSE ScopeOf(frs, MaxOf(Enclosing(frs, i)))
Containing(frs, line) ==
  {i \in DOMAIN frs :
     frs[i].def /\ frs[i].start <= line - 1 /\ line - 1 <= frs[i].end}
ExpectedScope(frs, line) ==
  IF Containing(frs, line) = {} THEN ModuleScope
  ELSE LET i == MaxOf(Containing(frs, line))
       IN  IF line - 1 = frs[i].start THEN ParentScope(frs, i)
           ELSE ScopeOf(frs, i)

\* C14: for fold ranges ascending and properly nested, every line of the
\* document has the scope id and colour of the innermost function range
\* that contains it (the module scope if none), except the first line of a
\* function range, which has those of the range's parent.
C14_LinesGetInnermostScope ==
  blockPc = "done" =>
    \A line \in 1..document[1].lineCount :
      BlockInfo(lineMap[1], line) = ExpectedScope(document[1].folds, line)

\* a function nested in a function that is not the first of the document,
\* the document ending outside every function
C14_Witness ==
  /\ blockPc = "done"
  /\ \E i \in DOMAIN document[1].folds : \E j \in DOMAIN document[1].folds :
       /\ i < j
       /\ document[1].folds[i].def
       /\ document[1].folds[j].def
       /\ document[1].folds[j].end <= document[1].folds[i].end
       /\ BlockInfo(lineMap[1], document[1].folds[j].start + 1).blockID >= 2
       /\ BlockInfo(lineMap[1], document[1].folds[j].start + 2).blockID >= 3
  /\ BlockInfo(lineMap[1], document[1].lineCount) = ModuleScope

---------------------------------------------------------------------------
(* Claims about applyToEditor (SpecRender) *)

\* line is a line of the document
InRange(lineCount, line) == 1 <= line /\ line <= lineCount
\* every record of the input names a line of the document
AllInRange(input) ==
  \A i \in DOMAIN input.records : InRange(input.lineCount, input.records[i].line)
\* the sum of the times of the records whose line has the scope id
ScopeTotal(input, id) ==
  LET RECURSIVE Sum(_)
      Sum(k) == IF k = 0 THEN 0
                ELSE Sum(k - 1)
                     + (IF ExpectedScope(input.folds, input.records[k].line).blockID = id
                          THEN input.records[k].time
                        ELSE 0)
  IN  Sum(Len(input.records))
\* round(100 * time / total), halves rounded up, 0 for a total of 0
ExactPercent(time, total) ==
  IF total = 0 THEN 0 ELSE (200 * time + total) \div (2 * total)

\* C15: when every record names a line of the document, the percent shown
\* for a record is round(100 * time / scopeTotal), scopeTotal being the sum
\* of the times of the records whose line is in the same scope, and 0 when
\* scopeTotal is 0.
C15_PercentOfScopeTotal ==
  (renderPc = "done" /\ AllInRange(renderInput[1])) =>
    \A i \in DOMAIN renderInput[1].records :
      renderOutput[1].lineOptions[i].percent =
        ExactPercent(renderInput[1].records[i].time,
                     ScopeTotal(renderInput[1],
                                ExpectedScope(renderInput[1].folds,
                                              renderInput[1].records[i].line).blockID))

\* the records that name a line of the document
RECURSIVE InRangeRecords(_, _)
InRangeRecords(lineCount, records) ==
  IF records = <<>> THEN <<>>
  ELSE (IF InRange(lineCount, Head(records).line) THEN <<Head(records)>> ELSE <<>>)
       \o InRangeRecords(lineCount, Tail(records))

\* C16: a record whose line is not a line of the document is ignored: the
\* render makes the line decorations and gutter labels it makes for the
\* records without it, with the same percents.
C16_OutOfRangeIgnored ==
  renderPc = "done" =>
    renderOutput[1] =
      RenderEditor(renderInput[1].lineCount, renderInput[1].folds,
                   InRangeRecords(renderInput[1].lineCount,
                                  renderInput[1].records))

---------------------------------------------------------------------------
(* Claims about formatDuration (SpecFormat) *)

\* round(1000 * r / c) for integers 0 <= r < c, halves rounded up
RoundedThousandths(r, c) == (2000 * r + c) \div (2 * c)
\* the reference: seconds = ticks / clocksPerSec as a fraction
ReferenceDuration(ticks, c) ==
  IF ticks >= c
    THEN LET remainMs == RoundedThousandths(ticks % c, c)
         IN  IF remainMs > 0
               THEN <<Part(ticks \div c, "s"), Part(remainMs, "ms")>>
             ELSE <<Part(ticks \div c, "s")>>
  ELSE IF 1000 * ticks >= c
    THEN LET remainUs == RoundedThousandths((1000 * ticks) % c, c)
         IN  IF remainUs > 0
               THEN <<Part((1000 * ticks) \div c, "ms"), Part(remainUs, "us")>>
             ELSE <<Part((1000 * ticks) \div c, "ms")>>
  ELSE <<Part(RoundedThousandths(1000 * ticks, c), "us")>>

\* C17: formatDuration returns the string of the reference: whole seconds
\* and the rounded millisecond remainder if it is not zero; below a second,
\* whole milliseconds and the rounded microsecond remainder if it is not
\* zero; below a millisecond, the rounded microseconds.
C17_FormatMatchesReference ==
  formatPc = "done" =>
    formatOutput[1] = ReferenceDuration(formatInput[1].clockTicks,
                                        formatInput[1].clocksPerSec)

---------------------------------------------------------------------------
(* Claims about the session factory (SpecLaunch), continued *)

\* C18: a request whose type is neither attach nor launch is rejected: the
\* factory shows one error message and returns null, and at no time is the
\* debuggee spawned or a probe socket opened.
C18_UnsupportedRejected ==
  requestType = "other" =>
    /\ ~spawned
    /\ sock = NoSocket
    /\ launchResult \in {"pending", "null"}
    /\ launchPc \in {"start", "done"}
    /\ launchPc = "start" => launchErrors = <<>> /\ launchResult = "pending"
    /\ launchPc = "done" =>
         launchErrors = <<"unsupported type">> /\ launchResult = "null"

\* the factory has returned from a request of an unknown type
C18_Witness ==
  requestType = "other" /\ launchPc = "done" /\ Len(launchErrors) = 1

---------------------------------------------------------------------------
(* Claims about the tracker (SpecRelay), continued *)

\* the frames of a message that has a frame array
FrameItems(m) == BodyFrames(m).items
\* no frame of the message has a source path
NoFramePath(m) ==
  BodyFrames(m).kind = "array" =>
    \A k \in 1..Len(FrameItems(m)) : SourcePath(FrameItems(m)[k].source) = Absent

\* C19: a message that lacks a field the tracker looks for is passed on, in
\* its place, with that part as it came: an outbound message without
\* arguments, source or path is unchanged; an inbound message without body
\* is unchanged; without body.source or its path the body's source is
\* unchanged; stackFrames that are absent or no array are unchanged; a frame
\* without source or path is unchanged; a fatalError event without
\* body.message keeps its body; and a message that lacks all of them is
\* unchanged as a whole.
C19_IncompleteMessagesPassThrough ==
  /\ Len(outForwarded) = Len(outObserved)
  /\ Len(inForwarded) = Len(inObserved)
  /\ \A i \in 1..Len(outObserved) :
       ArgumentsPath(outObserved[i]) = Absent => outForwarded[i] = outObserved[i]
  /\ \A i \in 1..Len(inObserved) :
       LET m == inObserved[i]
           f == inForwarded[i]
       IN  /\ m.body = Absent => f = m
           /\ f.body = Absent <=> m.body = Absent
           /\ (m.body # Absent /\ BodyPath(m) = Absent) =>
                f.body[1].source = m.body[1].source
           /\ BodyFrames(m).kind # "array" => BodyFrames(f) = BodyFrames(m)
           /\ BodyFrames(m).kind = "array" =>
                /\ BodyFrames(f).kind = "array"
                /\ Len(FrameItems(f)) = Len(FrameItems(m))
                /\ \A k \in 1..Len(FrameItems(m)) :
                     SourcePath(FrameItems(m)[k].source) = Absent =>
                       FrameItems(f)[k] = FrameItems(m)[k]
           /\ BodyText(f) = BodyText(m)
           /\ (BodyPath(m) = Absent /\ NoFramePath(m)) => f = m

\* an outbound setBreakpoints whose arguments have no source, and an inbound
\* fatalError event without body, have both been passed on
C19_Witness ==
  /\ Len(outForwarded) = 1
  /\ outObserved[1].command = "setBreakpoints"
  /\ outObserved[1].arguments # Absent
  /\ outObserved[1].arguments[1].source = Absent
  /\ Len(inForwarded) = 1
  /\ IsFatalErrorEvent(inObserved[1])
  /\ inObserved[1].body = Absent
  /\ Len(notifications) = 1

\* C20: once the session is torn down the retry loop stops: no back-off
\* timer is pending, and no step opens a new probe socket.
C20_TeardownStopsRetry ==
  /\ [](tornDown => timerDue = -1)
  /\ [][tornDown => ~(launchPc = "loopTop" /\ launchPc' = "awaitProbe")]_vars

---------------------------------------------------------------------------
(* Claims about the profiler sessions (SpecProf), continued *)

\* C21: whatever reports were loaded, each editor event has at most one
\* refresh listener registered, so one event renders each visible file at
\* most once.
C21_OneListenerPerEvent == listeners <= 1

---------------------------------------------------------------------------
(* Claims about reading an artifact (SpecParse), continued *)

\* C22: the clocksPerSec of an installed report is positive: it is the
\* artifact's CLOCKS_PER_SEC when that is a positive number and the default
\* 1,000,000 otherwise.
C22_ClocksPerSecPositive ==
  (parsePc = "done" /\ parseOutcome[1].kind = "installed") =>
    LET cps == GetProp(artifact[1].value, "CLOCKS_PER_SEC")
    IN  /\ parseOutcome[1].clocksPerSec > 0
        /\ parseOutcome[1].clocksPerSec =
             IF cps.t = "num" /\ cps.n > 0 THEN cps.n ELSE DefaultClocksPerSec

---------------------------------------------------------------------------
(* Claims about the path helpers (SpecAbs) *)

\* C23: toAbsolutePath applied to its own result returns that result, and
\* an absolute path is returned as it is.
C23_ToAbsoluteIdempotent ==
  /\ pathPc \in {"absOnce", "absTwice"} =>
       (IsAbsolute(pathArg) => absResult = pathArg)
  /\ pathPc = "absTwice" => absAgain = absResult

\* a relative path that the join had to normalize, made absolute twice
C23_Witness ==
  /\ pathPc = "absTwice"
  /\ ~IsAbsolute(pathArg)
  /\ absResult # sourceFolder \o <<Sep>> \o pathArg
  /\ absResult # sourceFolder
  /\ absAgain = absResult

---------------------------------------------------------------------------
(* Claims about mapLinesToBlocks (SpecBlocks), continued *)

IsDef(fr) == fr.def
\* line lies in the body of a function range: after its first line
InFunctionBody(frs, line) ==
  \E i \in DOMAIN frs :
    frs[i].def /\ frs[i].start < line - 1 /\ line - 1 <= frs[i].end

\* C24: scope id 0 is the module scope and nothing else: a line has it
\* exactly when it lies in the body of no function range; the k-th range
\* that starts with def has id k (the id of the line after its first); and
\* the ranges that do not start with def are skipped: the map is the map of
\* the document without them.
C24_ScopeIdsCountFunctions ==
  blockPc = "done" =>
    LET frs == document[1].folds
    IN  /\ \A line \in 1..document[1].lineCount :
             BlockInfo(lineMap[1], line).blockID = 0 <=> ~InFunctionBody(frs, line)
        /\ \A i \in DOMAIN frs :
             frs[i].def =>
               BlockInfo(lineMap[1], frs[i].start + 2).blockID =
                 Cardinality({j \in 1..i : frs[j].def})
        /\ lineMap[1] = mapLinesToBlocks(document[1].lineCount,
                                         SelectSeq(frs, IsDef))

\* a range that is no function comes first and encloses two functions
C24_Witness ==
  /\ blockPc = "done"
  /\ Len(document[1].folds) = 3
  /\ ~document[1].folds[1].def
  /\ document[1].folds[2].def
  /\ document[1].folds[3].def
  /\ document[1].folds[3].end <= document[1].folds[1].end
  /\ BlockInfo(lineMap[1], document[1].folds[3].start + 2).blockID = 2

---------------------------------------------------------------------------
(* Claims about applyToEditor (SpecRender), continued *)

\* the gutter entries of a render on one row
EntriesOn(out, row) ==
  {k \in DOMAIN out.prefixOptions : out.prefixOptions[k].row = row}
\* some record names the line of the row
Profiled(input, row) ==
  \E i \in DOMAIN input.records : input.records[i].line = row + 1

\* C25: after a render of a file that has records, every row of the file
\* has exactly one gutter entry, a percent label if a record names its line
\* and an empty label if none does, and no entry lies on a row outside the
\* file.
C25_OneGutterEntryPerLine ==
  (renderPc = "done" /\ renderInput[1].records # <<>>) =>
    LET out == renderOutput[1]
        n   == renderInput[1].lineCount
    IN  /\ \A k \in DOMAIN out.prefixOptions :
             out.prefixOptions[k].row \in 0..(n - 1)
        /\ \A row \in 0..(n - 1) :
             /\ Cardinality(EntriesOn(out, row)) = 1
             /\ \A k \in EntriesOn(out, row) :
                  out.prefixOptions[k].label # <<>> <=> Profiled(renderInput[1], row)

---------------------------------------------------------------------------
(* Claims about formatDuration (SpecFormat), continued *)

\* C27: when formatDuration prints two components the lower one is an
\* integer from 1 to 999, and a string of microseconds alone is below 1000.
C27_LowerComponentBelowThousand ==
  formatPc = "done" =>
    LET out == formatOutput[1]
    IN  /\ Len(out) = 2 => out[2].n \in 1..999
        /\ (Len(out) = 1 /\ out[1].unit = "us") => out[1].n < 1000

---------------------------------------------------------------------------
(* Claims about the profiler sessions (SpecProf), continued *)

\* C28: while no session is active (before the first load and from the end
\* of the quit command to the next load) no decoration type is live: an
\* editor event creates none, and neither does a render that awaited its
\* fold-range query when the quit command ran.
C28_NothingLiveAfterQuit ==
  currentLineProfiler = 0 =>
    /\ liveDts = {}
    /\ \A s \in SessionIds : ~prefixLive[s]

---------------------------------------------------------------------------
(* Claims about the line map cache (SpecCache) *)

\* C26: the cached line map of a file lives as long as its session: every
\* mapLinesToBlocks call of a decorator returns the map that the first
\* finished call of that decorator returned, and a call returns its map only
\* while its decorator is the active one, never after the report was
\* replaced or profiler mode was quit.
C26_CacheLivesWithSession ==
  /\ \A i \in DOMAIN mapsUsed : \A j \in DOMAIN mapsUsed :
       (i < j /\ mapsUsed[i].s = mapsUsed[j].s) =>
         mapsUsed[j].map = mapsUsed[i].map
  /\ \A i \in DOMAIN mapsUsed : mapsUsed[i].active = mapsUsed[i].s

---------------------------------------------------------------------------
(* Claims about files.readonlyInclude (SpecConfig) *)

\* C29: once every update has landed, the files that the setting marks
\* read-only are the files of the active report, and none when no report is
\* active.
C29_ReadOnlyIsActiveReport ==
  configUpdates = <<>> =>
    MarkedReadOnly(readonlyInclude) =
      (IF analysisFiles = <<>> THEN {} ELSE analysisFiles[1])

=============================================================================
